---- MODULE Spec2Model ----
(***************************************************************************)
(* The phrase Finder of text-searcher-rust (src/src/searcher/mod.rs): a    *)
(* streaming iterator that pushes the bytes of a reader into a circular    *)
(* buffer and, after every push, searches a window of that buffer for each *)
(* phrase under an inferred codepoint shift and a width of 1 or 2 bytes.   *)
(*                                                                         *)
(* One action is one iteration of a loop of Finder::next (one push and the *)
(* search that follows it), the failed read that ends the reading loop, or *)
(* the return of None.  Indices are 0-based as in the source: At(s, i) is  *)
(* s[i] of the source.                                                     *)
(***************************************************************************)
EXTENDS Integers, Sequences, FiniteSets, TLC

\* ----------------------------------------------------------------- bounds
\* Largest context size tried; the sizes are its positive multiples of 4.
MaxContext == 4
\* Source bytes are drawn from 0..MaxByte.
MaxByte == 2
\* A source delivers at most MaxSrcLen bytes before it reports end-of-stream.
MaxSrcLen == 5
\* Codepoints of tokens are drawn from 1..MaxCodepoint.
MaxCodepoint == 2
\* Longest token, and most tokens in the whole phrase list: one phrase of up
\* to MaxListTokens tokens, or several phrases sharing them.
MaxTokenLen == 2
MaxListTokens == 2
\* Reads of the source that fail with a transient error (a later read succeeds);
\* only the reader of SpecIO fails.
MaxReadErrors == 1
\* Returns of None that are counted (later ones leave the count alone).
MaxNoneReturns == 2

\* Longest byte slice handed to a decoder of Text, and longest string handed
\* to Text::from_str or to the parsing of --phrase.
MaxSliceLen == 3
MaxStrLen == 3

\* Longest window handed to a search primitive on its own.
MaxWindowLen == 5

\* Threads that call the service.
MaxThreads == 2

\* A source of SpecSlide delivers at most MaxSlideLen bytes.
MaxSlideLen == 7

\* usize::MAX, the start value of earliest_token_idx (mod.rs:154). It is only
\* ever compared with window offsets; the largest integer the checker holds
\* stands for 2^64 - 1.
usize_MAX == 2147483647

Byte == 0..MaxByte
Codepoint == 1..MaxCodepoint
Texts == UNION {[1..n -> Codepoint] : n \in 1..MaxTokenLen}
Phrases == UNION {[1..n -> Texts] : n \in 1..MaxListTokens}
\* The phrase lists, empty one included, that hold at most t tokens in all.
RECURSIVE ListsWithin(_)
ListsWithin(t) ==
    IF t = 0 THEN {<<>>}
    ELSE {<<>>} \cup
         UNION {{<<phrase>> \o rest : phrase \in [1..k -> Texts],
                                      rest \in ListsWithin(t - k)} : k \in 1..t}
PhraseLists == ListsWithin(MaxListTokens) \ {<<>>}
ContextSizes == {c \in 1..MaxContext : c % 4 = 0}

VARIABLES
    phrases,                \* Finder.phrases
    phrase_skip_counters,   \* Finder.phrase_skip_counters
    current_byte,           \* Finder.current_byte
    context,                \* Finder.context: the stored bytes, oldest first
    context_size,           \* capacity of Finder.context
    window_size,            \* Finder.window_size
    window_right,           \* Finder.window_right
    flush_counter,          \* Finder.flush_counter
    pc,                     \* where Finder::next stands: "ready" (not running),
                            \* "reading" (first loop), "flushing" (second loop)
    eof,                    \* the reader has reported end-of-stream
    read_errors,            \* reads that failed so far
    pushed,                 \* history: every byte pushed, in order
    flushed_at,             \* history: positions in pushed of the flush zeros
    emitted,                \* history: the groups returned, with their step
    last,                   \* the latest step: its window, what it searched, its hits
    windows_seen,           \* history: the window of every step, as stream position and bytes
    src_at_none,            \* history: source bytes pushed when next_char first
                            \* returned None (-1 before that)
    none_returned,          \* history: how often next() returned None
    call,                   \* the latest call of a function of Text or of main,
                            \* with its arguments and its outcome
    state,                  \* FinderService.state: the State inside the Mutex
    poisoned,               \* the Mutex is poisoned (a holder of its guard panicked)
    lock,                   \* the thread that holds the Mutex's guard, 0 when free
    disk,                   \* the persist file: whether it exists, and its content
    threads,                \* where each thread of the service stands
    last_call               \* history: the latest call of the service that ended

vars == <<phrases, phrase_skip_counters, current_byte, context, context_size,
          window_size, window_right, flush_counter, pc, eof, read_errors,
          pushed, flushed_at, emitted, last, windows_seen, src_at_none,
          none_returned, call, state, poisoned, lock, disk, threads, last_call>>

service_vars == <<state, poisoned, lock, disk, threads, last_call>>

\* ---------------------------------------------------------------- helpers
\* No function of Text or of main has been called.
NoCall == [op |-> "none", slice |-> <<>>, diff |-> 0, str |-> <<>>, panic |-> FALSE, out |-> <<>>]
At(s, i) == s[i + 1]
Slice(s, lo, hi) == SubSeq(s, lo + 1, hi)
Min2(a, b) == IF a < b THEN a ELSE b

\* CircleBuffer::push: O(1) push that drops the oldest byte once full.
CirclePush(buf, cap, b) ==
    IF Len(buf) < cap THEN Append(buf, b) ELSE Append(Tail(buf), b)

\* -------------------------------------------------------------------- Text
\* A char is its Unicode scalar value and a str the sequence of its chars. A
\* u32 stands as the 32-bit signed integer with the same bits, so the values
\* below 2^31 are themselves and v >= 2^31 is v - 2^32; an "as u32" or "as i32"
\* cast leaves the bits alone.

\* i32::MAX; codepoint_diff is an i32 (mod.rs:241).
i32_MAX == 2147483647

\* The outcome of a call: a panic, or the value returned.
Panicked == [panic |-> TRUE, out |-> <<>>]
Returned(v) == [panic |-> FALSE, out |-> v]

\* Text::from_str: the chars of the string, each cast to u32.
from_str(str) == [i \in 1..Len(str) |-> str[i]]

\* char::try_from(u32) of write_chars, with '?' (63) on Err: surrogates and
\* values above 0x10FFFF are no chars.
char_try_from(char_u32) ==
    IF char_u32 >= 0 /\ char_u32 <= 1114111
           /\ ~(char_u32 >= 55296 /\ char_u32 <= 57343)
    THEN char_u32 ELSE 63

\* Mutant of write_char: the space is not counted among the printable chars.
write_char_above_space(char_u32) ==
    LET char == char_try_from(char_u32)
    IN  IF char_u32 > 32 /\ char_u32 <= 126 THEN char
        ELSE IF char \in {10, 13, 9, 0} THEN 32 ELSE 63

\* The body of the loop of Text::write_chars: the char written for a codepoint.
write_char(char_u32) ==
    LET char == char_try_from(char_u32)
    IN  IF char_u32 >= 32 /\ char_u32 <= 126 THEN char
        ELSE IF char \in {10, 13, 9, 0} THEN 32 ELSE 63

\* Text's Display (to_string): write_chars into a String.
to_string(text) == [i \in 1..Len(text) |-> write_char(text[i])]

\* "num as i32 - codepoint_diff" overflows an i32 (num >= 0: it cannot underflow).
sub_overflows(num, codepoint_diff) == codepoint_diff < num - i32_MAX

\* The bits "num as i32 - codepoint_diff" leaves when it wraps: the difference
\* less 2^32 where it overflows.
wrapping_sub(num, codepoint_diff) ==
    IF sub_overflows(num, codepoint_diff)
    THEN (num - i32_MAX - 1) - (codepoint_diff + i32_MAX + 1)
    ELSE num - codepoint_diff

\* The outcomes of a decoding loop over nums: where a subtraction overflows,
\* a build with overflow checks (the dev and test profiles) panics and a build
\* without them (the release profile) wraps.
decoded(nums, codepoint_diff) ==
    LET wrapped == [i \in 1..Len(nums) |-> wrapping_sub(nums[i], codepoint_diff)]
    IN  IF \E i \in 1..Len(nums) : sub_overflows(nums[i], codepoint_diff)
        THEN {Panicked, Returned(wrapped)}
        ELSE {Returned(wrapped)}

\* Mutant of from_slice_1byte: the codepoint diff is not subtracted.
from_slice_1byte_unshifted(slice, codepoint_diff) == decoded(slice, 0)

\* Text::from_slice_1byte: the set of its outcomes.
from_slice_1byte(slice, codepoint_diff) == decoded(slice, codepoint_diff)

\* Text::from_slice_2bytes: the set of its outcomes. slice.chunks(2) ends with
\* a chunk of one byte when the slice has an odd length, and chunk[1] of that
\* chunk is out of bounds.
from_slice_2bytes(slice, codepoint_diff) ==
    IF Len(slice) % 2 = 1 THEN {Panicked}
    ELSE decoded([i \in 1..(Len(slice) \div 2) |->
                     slice[2 * i - 1] + slice[2 * i] * 256], codepoint_diff)

\* Text::from_slice: the set of its outcomes.
from_slice(slice, codepoint_diff, bytes_per_char) ==
    IF bytes_per_char = 1 THEN from_slice_1byte(slice, codepoint_diff)
    ELSE IF bytes_per_char = 2 THEN from_slice_2bytes(slice, codepoint_diff)
    ELSE {Panicked}

\* str::split(" ") from position i on, piece being the piece begun: every
\* single space ends a piece, an empty one too.
RECURSIVE split_loop(_, _, _)
split_loop(str, i, piece) ==
    IF i > Len(str) THEN <<piece>>
    ELSE IF str[i] = 32 THEN <<piece>> \o split_loop(str, i + 1, <<>>)
    ELSE split_loop(str, i + 1, Append(piece, str[i]))

\* main, lines 33-42: the Phrase of one --phrase argument.
parse_phrase(phrase_str) ==
    LET pieces == split_loop(phrase_str, 1, <<>>)
    IN  [k \in 1..Len(pieces) |-> from_str(pieces[k])]

\* --------------------------------------------------------- search primitives
\* A token's codepoints stand as the i32 values of their bits ("a[k] as i32"),
\* and every subtraction wraps as in a build without overflow checks; the
\* builds with overflow checks are told apart in search_checked and
\* search_2bytes_checked.
NoToken == [found |-> FALSE, index |-> 0, codepoint_diff |-> 0, bytes_per_character |-> 0]
TokenInstance(i, d, w) ==
    [found |-> TRUE, index |-> i, codepoint_diff |-> d, bytes_per_character |-> w]

get_2bytes(slice, idx) == At(slice, idx * 2) + At(slice, idx * 2 + 1) * 256

\* Mutant of MatchBytes: the loop stops one character short of the token.
MatchBytes_short(a, b, b_idx, codepoint_diff) ==
    \A a_idx \in 0..(Len(a) - 2) :
        At(a, a_idx) = wrapping_sub(At(b, b_idx + a_idx), codepoint_diff)

\* Mutant of MatchBytes: the bytes are compared with the token as they are,
\* the codepoint diff is not applied.
MatchBytes_unshifted(a, b, b_idx, codepoint_diff) ==
    \A a_idx \in 0..(Len(a) - 1) : At(a, a_idx) = At(b, b_idx + a_idx)

\* The inner loop of search / search_with_diff: every character of a equals
\* the byte of b at b_idx + a_idx less the codepoint diff.
MatchBytes(a, b, b_idx, codepoint_diff) ==
    \A a_idx \in 0..(Len(a) - 1) :
        At(a, a_idx) = wrapping_sub(At(b, b_idx + a_idx), codepoint_diff)

\* The inner loop of search_2bytes / search_2bytes_with_diff.
MatchPairs(a, b, b_idx, codepoint_diff) ==
    \A a_idx \in 0..(Len(a) - 1) :
        At(a, a_idx) = wrapping_sub(get_2bytes(b, b_idx + a_idx), codepoint_diff)

RECURSIVE search_loop(_, _, _)
search_loop(a, b, b_idx) ==
    IF b_idx >= Len(b) - Len(a) + 1 THEN NoToken
    ELSE LET codepoint_diff == wrapping_sub(At(b, b_idx), At(a, 0))
         IN  IF MatchBytes(a, b, b_idx, codepoint_diff)
             THEN TokenInstance(b_idx, codepoint_diff, 1)
             ELSE search_loop(a, b, b_idx + 1)

search(a, b) ==
    IF Len(a) = 0 THEN NoToken
    ELSE IF Len(a) > Len(b) THEN NoToken
    ELSE search_loop(a, b, 0)

\* The inner loop of search runs until a character differs: one of the
\* subtractions it makes overflows an i32.
BytesOverflow(a, b, b_idx, codepoint_diff) ==
    \E a_idx \in 0..(Len(a) - 1) :
        /\ sub_overflows(At(b, b_idx + a_idx), codepoint_diff)
        /\ \A k \in 0..(a_idx - 1) :
               At(a, k) = wrapping_sub(At(b, b_idx + k), codepoint_diff)

\* A subtraction of search overflows before search returns.
RECURSIVE search_overflows(_, _, _)
search_overflows(a, b, b_idx) ==
    IF b_idx >= Len(b) - Len(a) + 1 THEN FALSE
    ELSE IF sub_overflows(At(b, b_idx), At(a, 0)) THEN TRUE
    ELSE LET codepoint_diff == At(b, b_idx) - At(a, 0)
         IN  IF BytesOverflow(a, b, b_idx, codepoint_diff) THEN TRUE
             ELSE IF MatchBytes(a, b, b_idx, codepoint_diff) THEN FALSE
             ELSE search_overflows(a, b, b_idx + 1)

\* search: the set of its outcomes. Where a subtraction overflows, a build
\* with overflow checks panics and a build without them wraps.
search_checked(a, b) ==
    IF Len(a) > 0 /\ Len(a) <= Len(b) /\ search_overflows(a, b, 0)
    THEN {Panicked, Returned(search(a, b))}
    ELSE {Returned(search(a, b))}

RECURSIVE search_2bytes_loop(_, _, _)
search_2bytes_loop(a, b, b_idx) ==
    IF b_idx >= (Len(b) \div 2) - Len(a) + 1 THEN NoToken
    ELSE LET codepoint_diff == wrapping_sub(get_2bytes(b, b_idx), At(a, 0))
         IN  IF MatchPairs(a, b, b_idx, codepoint_diff)
             THEN TokenInstance(b_idx * 2, codepoint_diff, 2)
             ELSE search_2bytes_loop(a, b, b_idx + 1)

search_2bytes(a, b) ==
    IF Len(a) = 0 THEN NoToken
    ELSE IF Len(a) > Len(b) \div 2 THEN NoToken
    ELSE search_2bytes_loop(a, b, 0)

\* The inner loop of search_2bytes runs until a character differs: one of the
\* subtractions it makes overflows an i32.
PairsOverflow(a, b, b_idx, codepoint_diff) ==
    \E a_idx \in 0..(Len(a) - 1) :
        /\ sub_overflows(get_2bytes(b, b_idx + a_idx), codepoint_diff)
        /\ \A k \in 0..(a_idx - 1) :
               At(a, k) = wrapping_sub(get_2bytes(b, b_idx + k), codepoint_diff)

\* A subtraction of search_2bytes overflows before search_2bytes returns.
RECURSIVE search_2bytes_overflows(_, _, _)
search_2bytes_overflows(a, b, b_idx) ==
    IF b_idx >= (Len(b) \div 2) - Len(a) + 1 THEN FALSE
    ELSE IF sub_overflows(get_2bytes(b, b_idx), At(a, 0)) THEN TRUE
    ELSE LET codepoint_diff == get_2bytes(b, b_idx) - At(a, 0)
         IN  IF PairsOverflow(a, b, b_idx, codepoint_diff) THEN TRUE
             ELSE IF MatchPairs(a, b, b_idx, codepoint_diff) THEN FALSE
             ELSE search_2bytes_overflows(a, b, b_idx + 1)

\* search_2bytes: the set of its outcomes.
search_2bytes_checked(a, b) ==
    IF Len(a) > 0 /\ Len(a) <= Len(b) \div 2 /\ search_2bytes_overflows(a, b, 0)
    THEN {Panicked, Returned(search_2bytes(a, b))}
    ELSE {Returned(search_2bytes(a, b))}

RECURSIVE search_with_diff_loop(_, _, _, _)
search_with_diff_loop(a, b, codepoint_diff, b_idx) ==
    IF b_idx >= Len(b) - Len(a) + 1 THEN NoToken
    ELSE IF MatchBytes(a, b, b_idx, codepoint_diff)
         THEN TokenInstance(b_idx, codepoint_diff, 1)
         ELSE search_with_diff_loop(a, b, codepoint_diff, b_idx + 1)

search_with_diff(a, b, codepoint_diff) ==
    IF Len(a) = 0 THEN NoToken
    ELSE IF Len(a) > Len(b) THEN NoToken
    ELSE search_with_diff_loop(a, b, codepoint_diff, 0)

RECURSIVE search_2bytes_with_diff_loop(_, _, _, _)
search_2bytes_with_diff_loop(a, b, codepoint_diff, b_idx) ==
    IF b_idx >= (Len(b) \div 2) - Len(a) + 1 THEN NoToken
    ELSE IF MatchPairs(a, b, b_idx, codepoint_diff)
         THEN TokenInstance(b_idx * 2, codepoint_diff, 2)
         ELSE search_2bytes_with_diff_loop(a, b, codepoint_diff, b_idx + 1)

search_2bytes_with_diff(a, b, codepoint_diff) ==
    IF Len(a) = 0 THEN NoToken
    ELSE IF Len(a) > Len(b) \div 2 THEN NoToken
    ELSE search_2bytes_with_diff_loop(a, b, codepoint_diff, 0)

\* codepoint_diff is an Option<i32>: [some |-> FALSE] is None.
NoDiff == [some |-> FALSE, diff |-> 0]
SomeDiff(d) == [some |-> TRUE, diff |-> d]

\* Mutant of search_multibyte: the 2-byte searches are tried first.
search_multibyte_2bytes_first(a, b, codepoint_diff) ==
    IF codepoint_diff.some
    THEN LET r2 == search_2bytes_with_diff(a, b, codepoint_diff.diff)
         IN  IF r2.found THEN r2
             ELSE search_with_diff(a, b, codepoint_diff.diff)
    ELSE LET r2 == search_2bytes(a, b)
         IN  IF r2.found THEN r2 ELSE search(a, b)

search_multibyte(a, b, codepoint_diff) ==
    IF codepoint_diff.some
    THEN LET r1 == search_with_diff(a, b, codepoint_diff.diff)
         IN  IF r1.found THEN r1
             ELSE search_2bytes_with_diff(a, b, codepoint_diff.diff)
    ELSE LET r1 == search(a, b)
         IN  IF r1.found THEN r1 ELSE search_2bytes(a, b)

\* ------------------------------------------------------------------ Finder
\* Mutant of new_panics: the window size is not checked.
new_panics_window_unchecked(c_size, w_size) == c_size % 4 # 0

\* Finder::new, lines 70-75: the arguments that make it panic.
new_panics(c_size, w_size) == c_size % 4 # 0 \/ w_size > c_size

\* Mutant of new_w_left: half the window size is not subtracted.
new_w_left_mid(c_size, w_size) == c_size \div 2

\* Finder::new, lines 77-82: the window's nominal offsets in the context.
new_w_left(c_size, w_size) ==
    LET hws == w_size \div 2
        c_mid == c_size \div 2
    IN  IF c_mid > hws THEN c_mid - hws ELSE 0

new_w_right(c_size, w_size) ==
    LET w_right == new_w_left(c_size, w_size) + w_size
    IN  IF w_right > c_size THEN c_size ELSE w_right

\* Mutant of new_flush_counter: counts from the window's left edge.
new_flush_counter_left(c_size, w_size) == c_size - new_w_left(c_size, w_size)

\* Finder::new, line 92: the number of flush steps.
new_flush_counter(c_size, w_size) == c_size - new_w_right(c_size, w_size)

\* Mutant of get_window_bounds: the right edge is never clamped to
\* window_right, so the window stays on the newest bytes.
get_window_bounds_newest(ctx_len) ==
    LET w_right == ctx_len
        w_left == IF w_right > window_size THEN w_right - window_size ELSE 0
    IN  <<w_left, w_right>>

\* Finder::get_window_bounds for a context of ctx_len bytes: <<w_left, w_right>>.
get_window_bounds(ctx_len) ==
    LET w_right == IF window_right > ctx_len THEN ctx_len ELSE window_right
        w_left == IF w_right > window_size THEN w_right - window_size ELSE 0
    IN  <<w_left, w_right>>

\* find_phrase, lines 164-170: a later token found under another codepoint
\* diff or another bytes-per-character value fails the match.
Inconsistent(last_diff, last_bpc, token_instance) ==
    /\ last_diff.some
    /\ \/ token_instance.codepoint_diff # last_diff.diff
       \/ token_instance.bytes_per_character # last_bpc

\* Mutant of IsEarlier: every token found replaces the earliest one.
IsEarlier_always(token_idx, earliest_token_idx) == TRUE

\* find_phrase, line 174: the token lies before every token found so far.
IsEarlier(token_idx, earliest_token_idx) == token_idx < earliest_token_idx

NoMatch == [matched |-> FALSE, earliest_token_idx |-> usize_MAX, diff |-> 0, bpc |-> 0]

\* The token loop of find_phrase, lines 154-185, from token k (1-based) on.
RECURSIVE find_phrase_loop(_, _, _, _, _, _)
find_phrase_loop(tokens, k, window, earliest_token_idx, last_diff, last_bpc) ==
    IF k > Len(tokens)
    THEN [matched |-> TRUE, earliest_token_idx |-> earliest_token_idx,
          diff |-> last_diff.diff, bpc |-> last_bpc]
    ELSE LET token_instance == search_multibyte(tokens[k], window, last_diff)
         IN  IF ~token_instance.found THEN NoMatch
             ELSE IF Inconsistent(last_diff, last_bpc, token_instance) THEN NoMatch
             ELSE IF IsEarlier(token_instance.index, earliest_token_idx)
                  THEN find_phrase_loop(tokens, k + 1, window, token_instance.index,
                                        SomeDiff(token_instance.codepoint_diff),
                                        token_instance.bytes_per_character)
                  ELSE find_phrase_loop(tokens, k + 1, window, earliest_token_idx,
                                        last_diff, last_bpc)

\* Mutant of w_left_pos: the byte just pushed is not counted.
w_left_pos_stale(cur, ctx_len, w_left) == cur - ctx_len + w_left

\* Mutant of w_left_pos: the length of the context is not subtracted.
w_left_pos_no_len(cur, ctx_len, w_left) == cur + 1 + w_left

\* find_phrase, lines 188-189: the stream position of the window's left edge,
\* computed before current_byte is incremented for this push.
w_left_pos(cur, ctx_len, w_left) ==
    LET bytes_read == cur + 1
    IN  bytes_read - ctx_len + w_left

PhraseInstance(i, pos, d, w) ==
    [phrase_index |-> i, file_pos |-> pos, codepoint_diff |-> d, bytes_per_character |-> w]

\* Mutant of find_phrase: a hit skips one step less than the earliest token
\* index.
find_phrase_skip_short(phrase_index, w_left, w_right, ctx, cur, st) ==
    LET phrase == At(phrases, phrase_index)
        window == Slice(ctx, w_left, w_right)
        r == find_phrase_loop(phrase, 1, window, usize_MAX, NoDiff, 0)
    IN  IF ~r.matched THEN st
        ELSE [skips |-> [st.skips EXCEPT ![phrase_index + 1] =
                             IF r.earliest_token_idx > 0
                             THEN r.earliest_token_idx - 1 ELSE 0],
              instances |-> Append(st.instances,
                  PhraseInstance(phrase_index,
                                 w_left_pos(cur, Len(ctx), w_left) + r.earliest_token_idx,
                                 r.diff, r.bpc)),
              searched |-> st.searched]

\* Mutant of find_phrase: a hit leaves the phrase's skip counter as it was.
find_phrase_no_skip(phrase_index, w_left, w_right, ctx, cur, st) ==
    LET phrase == At(phrases, phrase_index)
        window == Slice(ctx, w_left, w_right)
        r == find_phrase_loop(phrase, 1, window, usize_MAX, NoDiff, 0)
    IN  IF ~r.matched THEN st
        ELSE [skips |-> st.skips,
              instances |-> Append(st.instances,
                  PhraseInstance(phrase_index,
                                 w_left_pos(cur, Len(ctx), w_left) + r.earliest_token_idx,
                                 r.diff, r.bpc)),
              searched |-> st.searched]

\* Finder::find_phrase on the context ctx; st holds the skip counters and the
\* instances found so far in this step, and the result is st updated.
find_phrase(phrase_index, w_left, w_right, ctx, cur, st) ==
    LET phrase == At(phrases, phrase_index)
        window == Slice(ctx, w_left, w_right)
        r == find_phrase_loop(phrase, 1, window, usize_MAX, NoDiff, 0)
    IN  IF ~r.matched THEN st
        ELSE [skips |-> [st.skips EXCEPT ![phrase_index + 1] = r.earliest_token_idx],
              instances |-> Append(st.instances,
                  PhraseInstance(phrase_index,
                                 w_left_pos(cur, Len(ctx), w_left) + r.earliest_token_idx,
                                 r.diff, r.bpc)),
              searched |-> st.searched]

\* The loop of Finder::find_phrases, lines 124-136, from phrase i on.
RECURSIVE find_phrases_loop(_, _, _, _)
find_phrases_loop(i, ctx, cur, st) ==
    IF i >= Len(phrases) THEN st
    ELSE IF At(st.skips, i) > 0
         THEN find_phrases_loop(i + 1, ctx, cur,
                  [st EXCEPT !.skips[i + 1] = At(st.skips, i) - 1])
         ELSE LET wb == get_window_bounds(Len(ctx))
                  st1 == [st EXCEPT !.searched = st.searched \cup {i}]
              IN  find_phrases_loop(i + 1, ctx, cur,
                      find_phrase(i, wb[1], wb[2], ctx, cur, st1))

\* Mutant of find_phrases: the phrases are visited from the last to the first.
RECURSIVE find_phrases_rev_loop(_, _, _, _)
find_phrases_rev_loop(i, ctx, cur, st) ==
    IF i < 0 THEN st
    ELSE IF At(st.skips, i) > 0
         THEN find_phrases_rev_loop(i - 1, ctx, cur,
                  [st EXCEPT !.skips[i + 1] = At(st.skips, i) - 1])
         ELSE LET wb == get_window_bounds(Len(ctx))
                  st1 == [st EXCEPT !.searched = st.searched \cup {i}]
              IN  find_phrases_rev_loop(i - 1, ctx, cur,
                      find_phrase(i, wb[1], wb[2], ctx, cur, st1))

find_phrases_rev(ctx, cur, skips) ==
    find_phrases_rev_loop(Len(phrases) - 1, ctx, cur,
                          [skips |-> skips, instances |-> <<>>, searched |-> {}])

find_phrases(ctx, cur, skips) ==
    find_phrases_loop(0, ctx, cur, [skips |-> skips, instances |-> <<>>, searched |-> {}])

\* Finder::get_context: the set of its outcomes; context.as_slice() is the
\* stored bytes, oldest first.
get_context(codepoint_diff, bytes_per_character) ==
    from_slice(context, codepoint_diff, bytes_per_character)

\* a - b of two usize values: the outcomes of the subtraction, a panic with
\* overflow checks and the wrapped value without them when a < b. The value
\* 2^64 + a - b is held as usize_MAX - (b - a - 1).
usize_sub(a, b) ==
    IF a >= b THEN {Returned(a - b)}
    ELSE {Panicked, Returned(usize_MAX - (b - a - 1))}

\* A Range<usize>.
Range(start, end) == [start |-> start, end |-> end]

\* Finder::get_context_range, lines 96-101: the set of its outcomes.
get_context_range ==
    LET start == usize_sub(current_byte, Len(context))
    IN  IF Panicked \in start
        THEN {Panicked} \cup {Returned(Range(s.out, current_byte)) : s \in start \ {Panicked}}
        ELSE {Returned(Range(s.out, current_byte)) : s \in start}

\* Finder::get_window_range, lines 103-109: the set of its outcomes; the two
\* bounds are subtracted in the same build, both checked or both wrapping.
get_window_range ==
    LET wb == get_window_bounds(Len(context))
        start == usize_sub(wb[1], current_byte)
        end == usize_sub(wb[2], current_byte)
        wrapped == {Returned(Range(s.out, e.out)) :
                        s \in start \ {Panicked}, e \in end \ {Panicked}}
    IN  IF Panicked \in start \cup end THEN {Panicked} \cup wrapped ELSE wrapped

NoStep == [w_left |-> 0, w_right |-> 0, searched |-> {}, group |-> <<>>, stepped |-> FALSE]

\* ----------------------------------------------------------- FinderService
\* The service of finder_service.rs: a State of tracked files and phrases in a
\* Mutex, and the persist file. A path is the sequence of its chars, all of
\* them relative and without "." or ".." names; '/' is 47.

\* Path::components: the names between the separators; repeated and trailing
\* separators yield no name.
RECURSIVE components_loop(_, _, _)
components_loop(path, i, name) ==
    IF i > Len(path) THEN (IF name = <<>> THEN <<>> ELSE <<name>>)
    ELSE IF path[i] = 47
         THEN (IF name = <<>> THEN <<>> ELSE <<name>>) \o components_loop(path, i + 1, <<>>)
         ELSE components_loop(path, i + 1, Append(name, path[i]))

components(path) == components_loop(path, 1, <<>>)

\* iter_after of std::path: prefix is used up before iter differs from it.
RECURSIVE iter_after(_, _)
iter_after(iter, prefix) ==
    IF prefix = <<>> THEN TRUE
    ELSE IF iter = <<>> THEN FALSE
    ELSE IF Head(iter) # Head(prefix) THEN FALSE
    ELSE iter_after(Tail(iter), Tail(prefix))

\* Mutant of starts_with: the prefix is taken char by char, as str::starts_with.
starts_with_str(path, base) ==
    Len(base) <= Len(path) /\ SubSeq(path, 1, Len(base)) = base

\* Path::starts_with(base), line 82: base's components begin path's.
starts_with(path, base) == iter_after(components(path), components(base))

\* PathBuf::join with one name.
join(path, name) ==
    IF path = <<>> THEN name
    ELSE IF path[Len(path)] = 47 THEN path \o name
    ELSE path \o <<47>> \o name

RECURSIVE join_all(_, _)
join_all(path, names) ==
    IF names = <<>> THEN path ELSE join_all(join(path, Head(names)), Tail(names))

\* The file tree the service runs on, by the names from the working directory:
\* the file df, the directory d with d/1 and d/e/2, and the directory u with
\* u/x, an entry that u lists but whose metadata cannot be read (u is readable
\* but not searchable, or x is deleted while u is walked).
FileSystem ==
    { [names |-> <<<<100, 102>>>>, kind |-> "file"],
      [names |-> <<<<100>>>>, kind |-> "dir"],
      [names |-> <<<<100>>, <<49>>>>, kind |-> "file"],
      [names |-> <<<<100>>, <<101>>>>, kind |-> "dir"],
      [names |-> <<<<100>>, <<101>>, <<50>>>>, kind |-> "file"],
      [names |-> <<<<117>>>>, kind |-> "dir"],
      [names |-> <<<<117>>, <<120>>>>, kind |-> "unreadable"] }

\* std::fs::metadata(path): the kind of the entry, or "err" when there is none
\* or its metadata cannot be read.
metadata(path) ==
    LET found == {e \in FileSystem : e.names = components(path)}
    IN  IF found = {} THEN "err"
        ELSE LET e == CHOOSE e \in found : TRUE
             IN  IF e.kind = "unreadable" THEN "err" ELSE e.kind

\* WalkDir::new(dirname): dirname itself and every entry beneath it, each with
\* the path WalkDir gives it (dirname joined with the names below it).
WalkDir(dirname) ==
    LET root == components(dirname)
    IN  {[path |-> join_all(dirname, SubSeq(e.names, Len(root) + 1, Len(e.names))),
          kind |-> e.kind] : e \in {e \in FileSystem : iter_after(e.names, root)}}

\* State::new.
State_new == [files |-> {}, phrases |-> {}]

\* HashSet<PathBuf>::insert of every path of paths (no two of them with the same
\* components): a PathBuf equals another when their components are equal.
files_insert(files, paths) ==
    files \cup {path \in paths : \A file \in files : components(file) # components(path)}

\* _add_file, lines 117-122.
add_file_single(files, filename) == files_insert(files, {filename})

\* add_dir, lines 124-131: the set of its outcomes. entry.metadata().unwrap()
\* panics at an entry whose metadata cannot be read, with the files of the
\* entries walked before it inserted; the order of a directory's entries is
\* the file system's.
add_dir(files, dirname) ==
    LET entries == WalkDir(dirname)
        regular == {entry.path : entry \in {e \in entries : e.kind = "file"}}
    IN  IF \E entry \in entries : entry.kind = "unreadable"
        THEN {[panic |-> TRUE, out |-> files_insert(files, walked)] : walked \in SUBSET regular}
        ELSE {Returned(files_insert(files, regular))}

\* remove_files, lines 81-82.
remove_files(files, filename) == {file \in files : ~starts_with(file, filename)}

\* Phrase's Display (mod.rs:451-461) from token index (1-based) on: the tokens'
\* renderings with a space between them.
RECURSIVE Phrase_fmt(_, _)
Phrase_fmt(phrase, index) ==
    IF index > Len(phrase) THEN <<>>
    ELSE to_string(phrase[index])
             \o (IF index # Len(phrase) THEN <<32>> ELSE <<>>)
             \o Phrase_fmt(phrase, index + 1)

\* Phrase's Serialize: the space-joined rendering of its tokens.
Phrase_serialize(phrase) == Phrase_fmt(phrase, 1)

\* The runs of chars of str that hold no ASCII whitespace, from position i on,
\* run being the run begun.
RECURSIVE split_ascii_whitespace(_, _, _)
split_ascii_whitespace(str, i, run) ==
    IF i > Len(str) THEN (IF run = <<>> THEN <<>> ELSE <<run>>)
    ELSE IF str[i] \in {9, 10, 12, 13, 32}
         THEN (IF run = <<>> THEN <<>> ELSE <<run>>) \o split_ascii_whitespace(str, i + 1, <<>>)
         ELSE split_ascii_whitespace(str, i + 1, Append(run, str[i]))

\* Phrase's Deserialize: one Text (text.rs:76-82) per non-empty run.
Phrase_deserialize(str) ==
    LET runs == split_ascii_whitespace(str, 1, <<>>)
    IN  [k \in 1..Len(runs) |-> from_str(runs[k])]

\* The elements of a HashSet in the order its iterator yields them: some order,
\* the same one for the same set.
RECURSIVE iter(_)
iter(set) ==
    IF set = {} THEN <<>>
    ELSE LET x == CHOOSE x \in set : TRUE
         IN  <<x>> \o iter(set \ {x})

\* The persist file's content is the sequence of the pieces serde_json writes:
\* the opening of the document, a string per file, the piece between the two
\* arrays, a string per phrase, and the closing. A hole is what a write past
\* the end of the file leaves before it.
Piece(k, v) == [k |-> k, v |-> v]
Hole == Piece("hole", <<>>)

\* State's Serialize by serde_json::to_writer, one piece per write.
serialize(st) ==
    LET files == iter(st.files)
        phr == iter(st.phrases)
    IN  <<Piece("open", <<>>)>>
            \o [i \in 1..Len(files) |-> Piece("file", files[i])]
            \o <<Piece("mid", <<>>)>>
            \o [i \in 1..Len(phr) |-> Piece("phrase", Phrase_serialize(phr[i]))]
            \o <<Piece("close", <<>>)>>

\* serde_json::from_reader(file).unwrap(), line 47: the State of a document
\* that is one complete serialization and nothing else, a panic otherwise.
from_reader(content) ==
    LET n == Len(content)
        mids == {i \in 1..n : content[i].k = "mid"}
        m == CHOOSE i \in mids : TRUE
    IN  IF /\ n >= 3
           /\ content[1].k = "open"
           /\ content[n].k = "close"
           /\ Cardinality(mids) = 1
           /\ \A i \in 2..(m - 1) : content[i].k = "file"
           /\ \A i \in (m + 1)..(n - 1) : content[i].k = "phrase"
        THEN Returned([files |-> {content[i].v : i \in 2..(m - 1)},
                       phrases |-> {Phrase_deserialize(content[i].v) : i \in (m + 1)..(n - 1)}])
        ELSE Panicked

\* The persist file does not exist.
NoFile == [exists |-> FALSE, content |-> <<>>]

\* FinderService::new, lines 43-58: the State of the new service, or a panic.
FinderService_new(file) ==
    IF file.exists THEN from_reader(file.content) ELSE Returned(State_new)

\* Mutant of open: the file keeps its content, as without truncate(true).
open_no_truncate(file) == [exists |-> TRUE, content |-> file.content]

\* File::options().create(true).truncate(true).write(true).open(..), lines
\* 99-103, where it succeeds: the file exists and is empty.
open(file) == [exists |-> TRUE, content |-> <<>>]

\* File::write at offset at: the piece replaces what is there, after holes when
\* the file ends before at.
write_at(content, at, piece) ==
    LET n == IF Len(content) > at + 1 THEN Len(content) ELSE at + 1
    IN  [i \in 1..n |-> IF i = at + 1 THEN piece
                        ELSE IF i <= Len(content) THEN content[i]
                        ELSE Hole]

\* The threads that call the service, and a thread that is in no call.
Threads == 1..MaxThreads
Idle == [pc |-> "idle", at |-> 0]

\* No call of the service has ended.
NoServiceCall ==
    [op |-> "none", path |-> <<>>, phrase |-> <<>>, result |-> "none"]

\* FinderService::new where there is no persist file, and no call made yet.
NoService ==
    /\ state = State_new
    /\ poisoned = FALSE
    /\ lock = 0
    /\ disk = NoFile
    /\ threads = [t \in Threads |-> Idle]
    /\ last_call = NoServiceCall

\* -------------------------------------------------------------------- Init
\* The state Finder::new returns, for a valid (context_size, window_size) and
\* a non-empty phrase list; nothing has been read.
Init ==
    /\ phrases \in PhraseLists
    /\ context_size \in ContextSizes
    /\ window_size \in 1..context_size
    /\ window_right = new_w_right(context_size, window_size)
    /\ phrase_skip_counters = [i \in 1..Len(phrases) |-> 0]
    /\ context = <<>>
    /\ current_byte = 0
    /\ flush_counter = new_flush_counter(context_size, window_size)
    /\ pc = "ready"
    /\ eof = FALSE
    /\ read_errors = 0
    /\ pushed = <<>>
    /\ flushed_at = {}
    /\ emitted = <<>>
    /\ last = NoStep
    /\ windows_seen = {}
    /\ src_at_none = -1
    /\ none_returned = 0
    /\ call = NoCall
    /\ NoService

\* ----------------------------------------------------------------- actions
\* The number of source bytes pushed so far (the pushes that are not flush zeros).
SourcePushed == Len(pushed) - Cardinality(flushed_at)

\* One iteration of either loop of Finder::next: push char, search, count the
\* byte, and return the group when there is one (pc "ready") or go on (loop).
Step(char, loop) ==
    LET ctx == CirclePush(context, context_size, char)
        st == find_phrases(ctx, current_byte, phrase_skip_counters)
        wb == get_window_bounds(Len(ctx))
    IN  /\ context' = ctx
        /\ phrase_skip_counters' = st.skips
        /\ current_byte' = current_byte + 1
        /\ pushed' = Append(pushed, char)
        /\ last' = [w_left |-> wb[1], w_right |-> wb[2], searched |-> st.searched,
                    group |-> st.instances, stepped |-> TRUE]
        /\ windows_seen' = windows_seen \cup
               {[step |-> Len(pushed) + 1,
                 pos |-> Len(pushed) + 1 - Len(ctx) + wb[1],
                 bytes |-> Slice(ctx, wb[1], wb[2])]}
        /\ IF st.instances # <<>>
           THEN /\ emitted' = Append(emitted, [step |-> Len(pushed) + 1, group |-> st.instances])
                /\ pc' = "ready"
           ELSE /\ emitted' = emitted
                /\ pc' = loop

\* next_char returns Some(b): the reading loop of next, lines 29-44.
ReadByte ==
    /\ pc \in {"ready", "reading"}
    /\ ~eof
    /\ SourcePushed < MaxSrcLen
    /\ \E b \in Byte : Step(b, "reading")
    /\ UNCHANGED <<service_vars, call, phrases, context_size, window_size, window_right, flush_counter,
                   eof, read_errors, flushed_at, src_at_none, none_returned>>

\* next_char returns None because the read returned 0 bytes (lines 209-210):
\* the source is at its end, and stays there.
ReadEnd ==
    /\ pc \in {"ready", "reading"}
    /\ eof' = TRUE
    /\ pc' = "flushing"
    /\ last' = NoStep
    /\ src_at_none' = IF src_at_none < 0 THEN SourcePushed ELSE src_at_none
    /\ UNCHANGED <<service_vars, call, phrases, phrase_skip_counters, current_byte, context, context_size,
                   window_size, window_right, flush_counter, read_errors, pushed,
                   flushed_at, emitted, windows_seen, none_returned>>

\* next_char returns None because the read failed (line 216). The error is
\* transient (std::io::ErrorKind::Interrupted, say): the source is not at its
\* end and a later read may succeed.
ReadError ==
    /\ pc \in {"ready", "reading"}
    /\ ~eof
    /\ read_errors < MaxReadErrors
    /\ read_errors' = read_errors + 1
    /\ pc' = "flushing"
    /\ last' = NoStep
    /\ src_at_none' = IF src_at_none < 0 THEN SourcePushed ELSE src_at_none
    /\ UNCHANGED <<service_vars, call, phrases, phrase_skip_counters, current_byte, context, context_size,
                   window_size, window_right, flush_counter, eof, pushed,
                   flushed_at, emitted, windows_seen, none_returned>>

\* One iteration of the flush loop of next, lines 47-56.
FlushStep ==
    /\ pc = "flushing"
    /\ flush_counter > 0
    /\ Step(0, "flushing")
    /\ flush_counter' = flush_counter - 1
    /\ flushed_at' = flushed_at \cup {Len(pushed) + 1}
    /\ UNCHANGED <<service_vars, call, phrases, context_size, window_size, window_right, eof, read_errors,
                   src_at_none, none_returned>>

\* The flush loop is over: next returns None (line 59).
ReturnNone ==
    /\ pc = "flushing"
    /\ flush_counter = 0
    /\ pc' = "ready"
    /\ none_returned' = Min2(none_returned + 1, MaxNoneReturns)
    /\ last' = NoStep
    /\ UNCHANGED <<service_vars, call, phrases, phrase_skip_counters, current_byte, context, context_size,
                   window_size, window_right, flush_counter, eof, read_errors, pushed,
                   flushed_at, emitted, windows_seen, src_at_none>>

\* A reader that delivers its bytes and then reports end-of-stream for good
\* (a slice, a file that no one appends to).
Next == ReadByte \/ ReadEnd \/ FlushStep \/ ReturnNone

Spec == Init /\ [][Next]_vars

\* A reader whose reads may also fail, searched for one phrase of one token.
InitIO ==
    /\ Init
    /\ Len(phrases) = 1
    /\ Len(phrases[1]) = 1

NextIO == ReadByte \/ ReadEnd \/ ReadError \/ FlushStep \/ ReturnNone

SpecIO == InitIO /\ [][NextIO]_vars

\* A Finder with a context larger than those of Init, searched for one phrase
\* of one token of two codepoints.
WideContextSizes == {c \in (MaxContext + 1)..(2 * MaxContext) : c % 4 = 0}

InitWide ==
    /\ phrases \in {<<<<t>>>> : t \in [1..2 -> Codepoint]}
    /\ context_size \in WideContextSizes
    /\ window_size \in 1..context_size
    /\ window_right = new_w_right(context_size, window_size)
    /\ phrase_skip_counters = [i \in 1..Len(phrases) |-> 0]
    /\ context = <<>>
    /\ current_byte = 0
    /\ flush_counter = new_flush_counter(context_size, window_size)
    /\ pc = "ready"
    /\ eof = FALSE
    /\ read_errors = 0
    /\ pushed = <<>>
    /\ flushed_at = {}
    /\ emitted = <<>>
    /\ last = NoStep
    /\ windows_seen = {}
    /\ src_at_none = -1
    /\ none_returned = 0
    /\ call = NoCall
    /\ NoService

SpecWide == InitWide /\ [][Next]_vars

\* A Finder searched for one phrase of one token of two codepoints on a source
\* long enough for the window to slide past an occurrence once the buffer is
\* full.
InitSlide ==
    /\ phrases \in {<<<<t>>>> : t \in [1..2 -> Codepoint]}
    /\ context_size \in ContextSizes
    /\ window_size \in 1..context_size
    /\ window_right = new_w_right(context_size, window_size)
    /\ phrase_skip_counters = [i \in 1..Len(phrases) |-> 0]
    /\ context = <<>>
    /\ current_byte = 0
    /\ flush_counter = new_flush_counter(context_size, window_size)
    /\ pc = "ready"
    /\ eof = FALSE
    /\ read_errors = 0
    /\ pushed = <<>>
    /\ flushed_at = {}
    /\ emitted = <<>>
    /\ last = NoStep
    /\ windows_seen = {}
    /\ src_at_none = -1
    /\ none_returned = 0
    /\ call = NoCall
    /\ NoService

\* next_char returns Some(b), as ReadByte, from the longer source.
ReadByteSlide ==
    /\ pc \in {"ready", "reading"}
    /\ ~eof
    /\ SourcePushed < MaxSlideLen
    /\ \E b \in Byte : Step(b, "reading")
    /\ UNCHANGED <<service_vars, call, phrases, context_size, window_size, window_right, flush_counter,
                   eof, read_errors, flushed_at, src_at_none, none_returned>>

NextSlide == ReadByteSlide \/ ReadEnd \/ FlushStep \/ ReturnNone

SpecSlide == InitSlide /\ [][NextSlide]_vars

\* ------------------------------------------- the Finder as a function of its input
\* A whole run, Finder::new and then next() until it returns None, of a Finder
\* of any phrases, context size and window size on a reader that delivers the
\* bytes of src and then reports end-of-stream; self is the record of the
\* Finder's fields, with the groups returned so far.
Finder_new(phr, c_size, w_size) ==
    [phrases |-> phr,
     phrase_skip_counters |-> [i \in 1..Len(phr) |-> 0],
     current_byte |-> 0,
     context |-> <<>>,
     context_size |-> c_size,
     window_size |-> w_size,
     window_right |-> new_w_right(c_size, w_size),
     flush_counter |-> new_flush_counter(c_size, w_size),
     emitted |-> <<>>]

\* Finder::get_window_bounds.
self_get_window_bounds(self, ctx_len) ==
    LET w_right == IF self.window_right > ctx_len THEN ctx_len ELSE self.window_right
        w_left == IF w_right > self.window_size THEN w_right - self.window_size ELSE 0
    IN  <<w_left, w_right>>

\* Mutant of self_find_phrase: the search does not stop at the window's right
\* edge but goes on to the newest byte.
self_find_phrase_to_newest(self, phrase_index, w_left, w_right, ctx, st) ==
    LET phrase == At(self.phrases, phrase_index)
        window == Slice(ctx, w_left, Len(ctx))
        r == find_phrase_loop(phrase, 1, window, usize_MAX, NoDiff, 0)
    IN  IF ~r.matched THEN st
        ELSE [skips |-> [st.skips EXCEPT ![phrase_index + 1] = r.earliest_token_idx],
              instances |-> Append(st.instances,
                  PhraseInstance(phrase_index,
                                 w_left_pos(self.current_byte, Len(ctx), w_left)
                                     + r.earliest_token_idx,
                                 r.diff, r.bpc)),
              searched |-> st.searched]

\* Finder::find_phrase.
self_find_phrase(self, phrase_index, w_left, w_right, ctx, st) ==
    LET phrase == At(self.phrases, phrase_index)
        window == Slice(ctx, w_left, w_right)
        r == find_phrase_loop(phrase, 1, window, usize_MAX, NoDiff, 0)
    IN  IF ~r.matched THEN st
        ELSE [skips |-> [st.skips EXCEPT ![phrase_index + 1] = r.earliest_token_idx],
              instances |-> Append(st.instances,
                  PhraseInstance(phrase_index,
                                 w_left_pos(self.current_byte, Len(ctx), w_left)
                                     + r.earliest_token_idx,
                                 r.diff, r.bpc)),
              searched |-> st.searched]

\* The loop of Finder::find_phrases, from phrase i on.
RECURSIVE self_find_phrases_loop(_, _, _, _)
self_find_phrases_loop(self, i, ctx, st) ==
    IF i >= Len(self.phrases) THEN st
    ELSE IF At(st.skips, i) > 0
         THEN self_find_phrases_loop(self, i + 1, ctx,
                  [st EXCEPT !.skips[i + 1] = At(st.skips, i) - 1])
         ELSE LET wb == self_get_window_bounds(self, Len(ctx))
                  st1 == [st EXCEPT !.searched = st.searched \cup {i}]
              IN  self_find_phrases_loop(self, i + 1, ctx,
                      self_find_phrase(self, i, wb[1], wb[2], ctx, st1))

\* One iteration of either loop of Finder::next: push, search, count the byte,
\* and return the group if there is one.
self_step(self, char) ==
    LET ctx == CirclePush(self.context, self.context_size, char)
        st == self_find_phrases_loop(self, 0, ctx,
                  [skips |-> self.phrase_skip_counters, instances |-> <<>>,
                   searched |-> {}])
    IN  [self EXCEPT !.context = ctx,
                     !.phrase_skip_counters = st.skips,
                     !.current_byte = self.current_byte + 1,
                     !.emitted = IF st.instances = <<>> THEN self.emitted
                                 ELSE Append(self.emitted,
                                             [step |-> self.current_byte + 1,
                                              group |-> st.instances])]

\* The reading loop of Finder::next over the calls of next(), from byte i of src.
RECURSIVE self_read_loop(_, _, _)
self_read_loop(self, src, i) ==
    IF i > Len(src) THEN self
    ELSE self_read_loop(self_step(self, src[i]), src, i + 1)

\* The flush loop of Finder::next over the calls of next().
RECURSIVE self_flush_loop(_)
self_flush_loop(self) ==
    IF self.flush_counter = 0 THEN self
    ELSE self_flush_loop([self_step(self, 0) EXCEPT
                             !.flush_counter = self.flush_counter - 1])

\* The groups a whole run returns, each with its step (the number of pushes).
Finder_run(phr, c_size, w_size, src) ==
    self_flush_loop(self_read_loop(Finder_new(phr, c_size, w_size), src, 1)).emitted

\* ------------------------------------------------- from the call of Finder::new
\* The phrase lists whose tokens are single codepoints.
ShortPhraseLists ==
    {list \in PhraseLists :
        \A i \in 1..Len(list) : \A k \in 1..Len(list[i]) : Len(list[i][k]) = 1}

\* Finder::new is about to be called: phrases, context_size and window_size
\* hold its arguments, valid or not. A context size of 0 is left out: what a
\* CircleBuffer of capacity 0 does is not known from the source.
InitNew ==
    /\ phrases \in ShortPhraseLists
    /\ context_size \in 1..MaxContext
    /\ window_size \in 0..(MaxContext + 1)
    /\ pc = "new"
    /\ phrase_skip_counters = <<>>
    /\ current_byte = 0
    /\ context = <<>>
    /\ window_right = 0
    /\ flush_counter = 0
    /\ eof = FALSE
    /\ read_errors = 0
    /\ pushed = <<>>
    /\ flushed_at = {}
    /\ emitted = <<>>
    /\ last = NoStep
    /\ windows_seen = {}
    /\ src_at_none = -1
    /\ none_returned = 0
    /\ call = NoCall
    /\ NoService

\* Finder::new: it panics, or it returns the Finder.
New ==
    /\ pc = "new"
    /\ IF new_panics(context_size, window_size)
       THEN /\ pc' = "panicked"
            /\ UNCHANGED <<phrase_skip_counters, window_right, flush_counter,
                           context, current_byte>>
       ELSE /\ pc' = "ready"
            /\ phrase_skip_counters' = [i \in 1..Len(phrases) |-> 0]
            /\ window_right' = new_w_right(context_size, window_size)
            /\ flush_counter' = new_flush_counter(context_size, window_size)
            /\ context' = <<>>
            /\ current_byte' = 0
    /\ UNCHANGED <<service_vars, call, phrases, context_size, window_size, eof, read_errors, pushed,
                   flushed_at, emitted, last, windows_seen, src_at_none, none_returned>>

NextNew == New \/ ReadByte \/ ReadEnd \/ FlushStep \/ ReturnNone

SpecNew == InitNew /\ [][NextNew]_vars

\* ------------------------------------------------- Text and main, on their own
\* No Finder has been constructed.
NoFinder ==
    /\ phrases = <<>>
    /\ phrase_skip_counters = <<>>
    /\ current_byte = 0
    /\ context = <<>>
    /\ context_size = 0
    /\ window_size = 0
    /\ window_right = 0
    /\ flush_counter = 0
    /\ pc = "none"
    /\ eof = FALSE
    /\ read_errors = 0
    /\ pushed = <<>>
    /\ flushed_at = {}
    /\ emitted = <<>>
    /\ last = NoStep
    /\ windows_seen = {}
    /\ src_at_none = -1
    /\ none_returned = 0

finder_vars == <<phrases, phrase_skip_counters, current_byte, context, context_size,
                 window_size, window_right, flush_counter, pc, eof, read_errors,
                 pushed, flushed_at, emitted, last, windows_seen, src_at_none,
                 none_returned>>

\* Bytes at both ends of u8, shifts at both ends of i32 and around 0, and chars
\* inside and outside the printable ASCII range (NUL, tab, LF, CR, US, space,
\* '?', 'a', '~', DEL, e-acute).
ByteSample == (0..MaxByte) \cup {255 - i : i \in 0..MaxByte}
ShiftSample ==
    ((-MaxByte)..MaxByte) \cup {i32_MAX - i : i \in 0..MaxByte}
        \cup {(-i32_MAX - 1) + i : i \in 0..MaxByte}
CharSample == {0, 9, 10, 13, 31, 32, 63, 97, 126, 127, 233}
SliceSample == UNION {[1..n -> ByteSample] : n \in 0..MaxSliceLen}
StrSample == UNION {[1..n -> CharSample] : n \in 0..MaxStrLen}

\* The arguments of the call to come: a slice and a codepoint diff for a
\* decoder, or a string.
InitText ==
    /\ NoFinder
    /\ NoService
    /\ call \in {[NoCall EXCEPT !.op = "slice", !.slice = sl, !.diff = d] :
                     sl \in SliceSample, d \in ShiftSample}
             \cup {[NoCall EXCEPT !.op = "str", !.str = str] : str \in StrSample}

\* Text::from_slice_1byte(slice, diff).
FromSlice1byte ==
    /\ call.op = "slice"
    /\ \E r \in from_slice_1byte(call.slice, call.diff) :
        call' = [call EXCEPT !.op = "from_slice_1byte", !.panic = r.panic, !.out = r.out]
    /\ UNCHANGED finder_vars
    /\ UNCHANGED service_vars

\* Text::from_slice_2bytes(slice, diff).
FromSlice2bytes ==
    /\ call.op = "slice"
    /\ \E r \in from_slice_2bytes(call.slice, call.diff) :
        call' = [call EXCEPT !.op = "from_slice_2bytes", !.panic = r.panic, !.out = r.out]
    /\ UNCHANGED finder_vars
    /\ UNCHANGED service_vars

\* Text::from_str(str).to_string().
FromStrToString ==
    /\ call.op = "str"
    /\ call' = [call EXCEPT !.op = "to_string", !.out = to_string(from_str(call.str))]
    /\ UNCHANGED finder_vars
    /\ UNCHANGED service_vars

\* main's parsing of one --phrase argument.
ParsePhrase ==
    /\ call.op = "str"
    /\ call' = [call EXCEPT !.op = "parse_phrase", !.out = parse_phrase(call.str)]
    /\ UNCHANGED finder_vars
    /\ UNCHANGED service_vars

NextText == FromSlice1byte \/ FromSlice2bytes \/ FromStrToString \/ ParsePhrase

SpecText == InitText /\ [][NextText]_vars

\* ------------------------------------------- the search primitives, on their own
\* Codepoints of tokens at both ends of u32 (0xFFFFFFFF is -1) and around 2^31
\* (0x80000000 is -2^31), and the bytes of windows at both ends of u8.
CodepointSample == {1, 2, i32_MAX, -i32_MAX - 1, -1}
TokenSample == UNION {[1..n -> CodepointSample] : n \in 0..MaxTokenLen}
WindowSample == UNION {[1..n -> {0, 1, 255}] : n \in 0..MaxWindowLen}

\* The arguments of the call to come: a token and a window.
InitSearch ==
    /\ NoFinder
    /\ NoService
    /\ call \in {[NoCall EXCEPT !.op = "token", !.str = a, !.slice = b] :
                     a \in TokenSample, b \in WindowSample}

\* search(a, b).
Search ==
    /\ call.op = "token"
    /\ \E r \in search_checked(call.str, call.slice) :
        call' = [call EXCEPT !.op = "search", !.panic = r.panic, !.out = r.out]
    /\ UNCHANGED finder_vars
    /\ UNCHANGED service_vars

\* search_2bytes(a, b).
Search2bytes ==
    /\ call.op = "token"
    /\ \E r \in search_2bytes_checked(call.str, call.slice) :
        call' = [call EXCEPT !.op = "search_2bytes", !.panic = r.panic, !.out = r.out]
    /\ UNCHANGED finder_vars
    /\ UNCHANGED service_vars

NextSearch == Search \/ Search2bytes

SpecSearch == InitSearch /\ [][NextSearch]_vars

\* ------------------------------------------------- the service, on its own
\* Paths given to add_file and remove_files: "", df, d, d/, d/1, u and n, which
\* does not exist.
PathSample ==
    {<<>>, <<100, 102>>, <<100>>, <<100, 47>>, <<100, 47, 49>>, <<117>>, <<110>>}

\* Phrases given to add_phrase and remove_phrase: "a b" of two tokens, and
\* e-acute.
PhraseSample == {<<<<97>>, <<98>>>>, <<<<233>>>>}

\* The call op of thread t ends with result, and t goes on at pc then.
Ends(t, op, path, phrase, result, then) ==
    /\ threads' = [threads EXCEPT ![t] = [pc |-> then, at |-> 0]]
    /\ last_call' = [op |-> op, path |-> path, phrase |-> phrase, result |-> result]

\* add_file(filename), lines 68-77, where metadata fails: Err, before any lock.
AddFileErr(t, then) ==
    /\ threads[t].pc = "idle"
    /\ \E filename \in PathSample :
        /\ metadata(filename) = "err"
        /\ Ends(t, "add_file", filename, <<>>, "Err", then)
    /\ UNCHANGED <<state, poisoned, lock, disk, finder_vars, call>>

\* add_file(filename) on a regular file or on a directory; the guard of the
\* Mutex is held from the lock to the end of _add_file or add_dir, and dropped
\* by the unwinding when add_dir panics, which poisons the Mutex.
AddFile(t, then) ==
    /\ threads[t].pc = "idle"
    /\ lock = 0
    /\ ~poisoned
    /\ \E filename \in PathSample :
        \/ /\ metadata(filename) = "file"
           /\ state' = [state EXCEPT !.files = add_file_single(@, filename)]
           /\ poisoned' = poisoned
           /\ Ends(t, "add_file", filename, <<>>, "Ok", then)
        \/ /\ metadata(filename) = "dir"
           /\ \E r \in add_dir(state.files, filename) :
               /\ state' = [state EXCEPT !.files = r.out]
               /\ poisoned' = r.panic
               /\ Ends(t, "add_file", filename, <<>>,
                       IF r.panic THEN "panic" ELSE "Ok",
                       IF r.panic THEN "panicked" ELSE then)
    /\ UNCHANGED <<lock, disk, finder_vars, call>>

\* remove_files(filename), lines 80-83.
RemoveFiles(t, then) ==
    /\ threads[t].pc = "idle"
    /\ lock = 0
    /\ ~poisoned
    /\ \E filename \in PathSample :
        /\ state' = [state EXCEPT !.files = remove_files(@, filename)]
        /\ Ends(t, "remove_files", filename, <<>>, "Ok", then)
    /\ UNCHANGED <<poisoned, lock, disk, finder_vars, call>>

\* add_phrase(phrase), lines 86-89.
AddPhrase(t, then) ==
    /\ threads[t].pc = "idle"
    /\ lock = 0
    /\ ~poisoned
    /\ \E phrase \in PhraseSample :
        /\ state' = [state EXCEPT !.phrases = @ \cup {phrase}]
        /\ Ends(t, "add_phrase", <<>>, phrase, "Ok", then)
    /\ UNCHANGED <<poisoned, lock, disk, finder_vars, call>>

\* remove_phrase(phrase), lines 92-95: whether the phrase was tracked.
RemovePhrase(t, then) ==
    /\ threads[t].pc = "idle"
    /\ lock = 0
    /\ ~poisoned
    /\ \E phrase \in PhraseSample :
        /\ state' = [state EXCEPT !.phrases = @ \ {phrase}]
        /\ Ends(t, "remove_phrase", <<>>, phrase,
                IF phrase \in state.phrases THEN "true" ELSE "false", then)
    /\ UNCHANGED <<poisoned, lock, disk, finder_vars, call>>

\* self.state.lock().unwrap() of _add_file, add_dir, remove_files, add_phrase
\* and remove_phrase on a poisoned Mutex: the call panics.
LockPoisoned(t) ==
    /\ threads[t].pc = "idle"
    /\ lock = 0
    /\ poisoned
    /\ Ends(t, "lock", <<>>, <<>>, "panic", "panicked")
    /\ UNCHANGED <<state, poisoned, lock, disk, finder_vars, call>>

\* persist, lines 99-103, begun at pc from: the open creates the file or
\* truncates it, and the thread's file offset is 0.
PersistOpen(t, from) ==
    /\ threads[t].pc = from
    /\ disk' = open(disk)
    /\ threads' = [threads EXCEPT ![t] = [pc |-> "opened", at |-> 0]]
    /\ UNCHANGED <<state, poisoned, lock, last_call, finder_vars, call>>

\* persist, lines 104-109: the open fails and persist returns Err(IoError).
PersistOpenErr(t, from, then) ==
    /\ threads[t].pc = from
    /\ Ends(t, "persist", <<>>, <<>>, "Err", then)
    /\ UNCHANGED <<state, poisoned, lock, disk, finder_vars, call>>

\* serde_json::to_writer(&file, &self.state), line 111: Mutex's Serialize locks
\* the state for the whole serialization, and fails on a poisoned Mutex, which
\* makes persist return Err(JsonError).
PersistLock(t, then) ==
    /\ threads[t].pc = "opened"
    /\ lock = 0
    /\ \/ /\ ~poisoned
          /\ lock' = t
          /\ threads' = [threads EXCEPT ![t].pc = "writing"]
          /\ UNCHANGED last_call
       \/ /\ poisoned
          /\ Ends(t, "persist", <<>>, <<>>, "Err", then)
          /\ UNCHANGED lock
    /\ UNCHANGED <<state, poisoned, disk, finder_vars, call>>

\* One write of the serializer, at the thread's offset in the file.
PersistWrite(t) ==
    /\ threads[t].pc = "writing"
    /\ threads[t].at < Len(serialize(state))
    /\ disk' = [disk EXCEPT !.content =
                    write_at(@, threads[t].at, serialize(state)[threads[t].at + 1])]
    /\ threads' = [threads EXCEPT ![t].at = @ + 1]
    /\ UNCHANGED <<state, poisoned, lock, last_call, finder_vars, call>>

\* The serialization is complete: the guard is dropped and persist returns Ok.
PersistReturn(t, then) ==
    /\ threads[t].pc = "writing"
    /\ threads[t].at = Len(serialize(state))
    /\ lock' = 0
    /\ Ends(t, "persist", <<>>, <<>>, "Ok", then)
    /\ UNCHANGED <<state, poisoned, disk, finder_vars, call>>

\* No call of the service is under way.
Quiet == \A t \in Threads : threads[t].pc \in {"idle", "panicked"}

\* The process ends and a new one calls FinderService::new on the persist
\* file; where new panics the process has no service.
ServiceNew ==
    /\ Quiet
    /\ last_call.op # "new"
    /\ LET r == FinderService_new(disk)
       IN  \/ /\ ~r.panic
              /\ state' = r.out
              /\ threads' = [t \in Threads |-> Idle]
              /\ last_call' = [NoServiceCall EXCEPT !.op = "new", !.result = "Ok"]
           \/ /\ r.panic
              /\ state' = state
              /\ threads' = [t \in Threads |-> [pc |-> "panicked", at |-> 0]]
              /\ last_call' = [NoServiceCall EXCEPT !.op = "new", !.result = "panic"]
    /\ poisoned' = FALSE
    /\ lock' = 0
    /\ UNCHANGED <<disk, finder_vars, call>>

InitService ==
    /\ NoFinder
    /\ call = NoCall
    /\ NoService

\* The calls of the service one at a time, each by any thread.
NextService ==
    \E t \in Threads :
        \/ Quiet /\ AddFileErr(t, "idle")
        \/ Quiet /\ AddFile(t, "idle")
        \/ Quiet /\ RemoveFiles(t, "idle")
        \/ Quiet /\ AddPhrase(t, "idle")
        \/ Quiet /\ RemovePhrase(t, "idle")
        \/ Quiet /\ LockPoisoned(t)
        \/ Quiet /\ PersistOpen(t, "idle")
        \/ Quiet /\ PersistOpenErr(t, "idle", "idle")
        \/ PersistLock(t, "idle")
        \/ PersistWrite(t)
        \/ PersistReturn(t, "idle")
        \/ ServiceNew

SpecService == InitService /\ [][NextService]_vars

\* Threads that share one service: each makes one mutating call and then calls
\* persist, in any interleaving. The service starts empty or tracking a file
\* and a phrase, with no persist file or with the one of its state.
StateSample ==
    {State_new, [files |-> {<<100, 102>>}, phrases |-> {<<<<97>>, <<98>>>>}]}

InitThreads ==
    /\ NoFinder
    /\ call = NoCall
    /\ state \in StateSample
    /\ poisoned = FALSE
    /\ lock = 0
    /\ disk \in {NoFile, [exists |-> TRUE, content |-> serialize(state)]}
    /\ threads = [t \in Threads |-> Idle]
    /\ last_call = NoServiceCall

\* The next step of thread t: its mutating call, and then the steps of its
\* persist.
ThreadStep(t) ==
    \/ AddFileErr(t, "mutated")
    \/ AddFile(t, "mutated")
    \/ RemoveFiles(t, "mutated")
    \/ AddPhrase(t, "mutated")
    \/ RemovePhrase(t, "mutated")
    \/ LockPoisoned(t)
    \/ PersistOpen(t, "mutated")
    \/ PersistOpenErr(t, "mutated", "returned_err")
    \/ PersistLock(t, "returned_err")
    \/ PersistWrite(t)
    \/ PersistReturn(t, "returned_ok")

NextThreads == \E t \in Threads : ThreadStep(t)

\* A thread that can take a step is scheduled in the end; a Mutex that is free
\* is given to a thread that waits for it.
SpecThreads ==
    InitThreads /\ [][NextThreads]_vars /\ \A t \in Threads : WF_vars(ThreadStep(t))

\* =================================================================== claims
\* What the claims speak of, stated without the search loops of the model.

\* The k-th character of width w bytes (little-endian for w = 2) of the bytes
\* of seq that start at byte position pos.
CharAt(seq, pos, k, w) ==
    IF w = 1 THEN At(seq, pos + k)
    ELSE At(seq, pos + 2 * k) + 256 * At(seq, pos + 2 * k + 1)

\* Token t stands at byte position pos of seq under (shift, width).
OccursAt(seq, pos, t, shift, width) ==
    /\ pos >= 0
    /\ pos + width * Len(t) <= Len(seq)
    /\ \A k \in 0..(Len(t) - 1) : CharAt(seq, pos, k, width) - shift = At(t, k)

\* The window the latest step searched.
LastWindow == Slice(context, last.w_left, last.w_right)

\* The instances of the latest step.
LastInstances == {last.group[i] : i \in 1..Len(last.group)}

\* Every instance emitted so far, with the step (number of pushes) of its group.
EmittedInstances ==
    UNION {{[step |-> emitted[g].step, inst |-> emitted[g].group[i]] :
              i \in 1..Len(emitted[g].group)} : g \in 1..Len(emitted)}

\* The offsets of the window at which token t stands under (shift, width), as
\* the search of that width can report them: any byte offset for width 1, the
\* even offsets (pairs aligned to the window start) for width 2.
MatchOffsets(t, window, shift, width) ==
    {o \in 0..Len(window) :
        /\ OccursAt(window, o, t, shift, width)
        /\ width = 2 => o % 2 = 0}

SetMin(S) == CHOOSE x \in S : \A y \in S : x <= y

\* C1 (as claimed): the pushed bytes beginning at file_pos, decoded under the
\* instance's (shift, width), begin with the FIRST token of the phrase.
C1_FirstTokenAtFilePos ==
    \A inst \in LastInstances :
        OccursAt(pushed, inst.file_pos, At(phrases, inst.phrase_index)[1],
                 inst.codepoint_diff, inst.bytes_per_character)

\* C1 (amended): the pushed bytes (source bytes and flush zeros) beginning at
\* file_pos, decoded under the instance's (shift, width), begin with one of
\* the tokens of the phrase, not necessarily the first.
C1_SomeTokenAtFilePos ==
    \A inst \in LastInstances :
        \E k \in 1..Len(At(phrases, inst.phrase_index)) :
            OccursAt(pushed, inst.file_pos, At(phrases, inst.phrase_index)[k],
                     inst.codepoint_diff, inst.bytes_per_character)

\* C1 witness: a hit of a two-token phrase whose file_pos is the position of
\* its second token and not of its first.
C1_Witness ==
    \E inst \in LastInstances :
        LET phrase == At(phrases, inst.phrase_index)
        IN  /\ Len(phrase) = 2
            /\ OccursAt(pushed, inst.file_pos, phrase[2],
                        inst.codepoint_diff, inst.bytes_per_character)
            /\ ~OccursAt(pushed, inst.file_pos, phrase[1],
                         inst.codepoint_diff, inst.bytes_per_character)

\* C2 (as claimed): no two emitted instances of the same phrase have the same
\* file_pos.
C2_NoDuplicateHit ==
    \A x, y \in EmittedInstances :
        (x # y /\ x.inst.phrase_index = y.inst.phrase_index)
            => x.inst.file_pos # y.inst.file_pos

\* Some (shift, width) puts every token of the phrase somewhere in the window.
ConsistentMatchExists(phrase, window) ==
    \E width \in {1, 2} :
        \E o1 \in 0..Len(window) :
            /\ o1 + width * Len(phrase[1]) <= Len(window)
            /\ LET shift == CharAt(window, o1, 0, width) - At(phrase[1], 0)
               IN  \A k \in 1..Len(phrase) :
                       \E o \in 0..Len(window) :
                           OccursAt(window, o, phrase[k], shift, width)

\* C3 (as claimed): a phrase that is searched in a step, and whose tokens all
\* stand in the window under one (shift, width), is emitted in that step.
C3_ConsistentMatchEmitted ==
    \A p \in last.searched :
        ConsistentMatchExists(At(phrases, p), LastWindow)
            => \E inst \in LastInstances : inst.phrase_index = p

\* C4: every token of an emitted instance's phrase stands somewhere in the
\* window of that step under the instance's (shift, width).
C4_ShiftConsistency ==
    \A inst \in LastInstances :
        \A k \in 1..Len(At(phrases, inst.phrase_index)) :
            \E o \in 0..Len(LastWindow) :
                OccursAt(LastWindow, o, At(phrases, inst.phrase_index)[k],
                         inst.codepoint_diff, inst.bytes_per_character)

\* C4 witness: a hit of a two-token phrase found at two bytes per character.
C4_Witness ==
    \E inst \in LastInstances :
        /\ Len(At(phrases, inst.phrase_index)) = 2
        /\ inst.bytes_per_character = 2

\* C5: file_pos = pushes - buffer length + w_left + e, with e the smallest
\* window offset at which a token of the phrase was matched in the step, and
\* the token matched there stands at file_pos in the sequence of pushed bytes.
C5_FilePosOfEarliestToken ==
    \A inst \in LastInstances :
        LET phrase == At(phrases, inst.phrase_index)
            shift == inst.codepoint_diff
            width == inst.bytes_per_character
            matched == {k \in 1..Len(phrase) :
                          MatchOffsets(phrase[k], LastWindow, shift, width) # {}}
            first(k) == SetMin(MatchOffsets(phrase[k], LastWindow, shift, width))
        IN  /\ matched = 1..Len(phrase)
            /\ \E k \in matched :
                /\ \A j \in matched : first(k) <= first(j)
                /\ inst.file_pos = Len(pushed) - Len(context) + last.w_left + first(k)
                /\ OccursAt(pushed, inst.file_pos, phrase[k], shift, width)

\* C5 witness: a hit whose earliest token is neither the first token of the
\* phrase nor at the left edge of the window, after the buffer has dropped bytes.
C5_Witness ==
    \E inst \in LastInstances :
        LET phrase == At(phrases, inst.phrase_index)
        IN  /\ Len(phrase) = 2
            /\ Len(pushed) > Len(context)
            /\ inst.file_pos > Len(pushed) - Len(context) + last.w_left
            /\ ~OccursAt(pushed, inst.file_pos, phrase[1],
                         inst.codepoint_diff, inst.bytes_per_character)

\* The flush zeros are the last pushes, and there are window_right short of
\* context_size of them.
FlushedLast ==
    /\ Cardinality(flushed_at) = context_size - window_right
    /\ flushed_at = (SourcePushed + 1)..Len(pushed)
    /\ \A i \in flushed_at : pushed[i] = 0

\* Once next() has returned None for a source of N bytes, exactly
\* N + (context_size - window_right) bytes have been pushed, the N source bytes
\* and then the zeros, and that stays so over every later call of next(); no
\* group is emitted after the last push, and before the first None no more
\* than context_size - window_right zeros are pushed.
PushesThenNone ==
    /\ Cardinality(flushed_at) <= context_size - window_right
    /\ none_returned >= 1 =>
        /\ eof
        /\ flush_counter = 0
        /\ FlushedLast
        /\ \A g \in 1..Len(emitted) : emitted[g].step <= Len(pushed)
        /\ pc = "ready" => last.group = <<>>

\* An upper bound of the loop iterations and loop exits left before next()
\* returns None: a source holds at most MaxSrcLen bytes.
StepsLeft ==
    2 * ((MaxSrcLen - SourcePushed) + flush_counter)
        + (IF pc = "flushing" THEN 0 ELSE 1)

\* C6: repeatedly calling next() on a source of N bytes terminates: until the
\* first None every step of next() lowers StepsLeft, which is never negative;
\* and once None is returned, exactly N + (context_size - window_right) bytes
\* have been pushed (the source bytes, then the zeros) and every later call
\* returns None without pushing a byte or emitting a group.
C6_Terminates ==
    /\ []PushesThenNone
    /\ [][none_returned' = 0 => (StepsLeft' < StepsLeft /\ StepsLeft' >= 0)]_vars

\* C6 witness: next() has returned None twice, after source bytes and flush
\* zeros were pushed and a group was emitted.
C6_Witness ==
    /\ none_returned = 2
    /\ SourcePushed >= 2
    /\ flushed_at # {}
    /\ emitted # <<>>

\* C7 (as claimed): after the first read that fails or returns 0 bytes no
\* further source byte is pushed, and at most context_size - window_right
\* zero bytes are pushed in all.
C7_NoSourceByteAfterFailedRead ==
    /\ src_at_none >= 0 => SourcePushed = src_at_none
    /\ Cardinality(flushed_at) <= context_size - window_right

\* The source bytes pushed so far, when the flush zeros are the last pushes
\* (as they are for a reader whose end-of-stream is final).
Source == SubSeq(pushed, 1, SourcePushed)

\* For every k in 0..N-W some step had its window on exactly the source bytes
\* [k, k+W).
WindowCoversSource ==
    \A k \in 0..(SourcePushed - window_size) :
        \E ws \in windows_seen :
            /\ ws.pos = k
            /\ ws.bytes = Slice(Source, k, k + window_size)

C9_OneGroupPerStep ==
    /\ \A g \in 1..Len(emitted) :
        /\ emitted[g].group # <<>>
        /\ \A i, j \in 1..Len(emitted[g].group) :
            i < j => emitted[g].group[i].phrase_index < emitted[g].group[j].phrase_index
        /\ \A h \in 1..Len(emitted) : g < h => emitted[g].step < emitted[h].step
    /\ last.group # <<>> =>
        /\ emitted # <<>>
        /\ emitted[Len(emitted)] = [step |-> Len(pushed), group |-> last.group]
        /\ \A inst \in LastInstances :
            /\ inst.phrase_index \in last.searched
            /\ inst.file_pos >= Len(pushed) - Len(context) + last.w_left
            /\ inst.file_pos < Len(pushed) - Len(context) + last.w_right

\* C9 witness: a second group is emitted, and it holds two instances.
C9_Witness ==
    /\ Len(emitted) >= 2
    /\ Len(last.group) = 2

\* C10: for every emitted instance 0 <= file_pos <= bytes pushed when it was
\* emitted, and bytes_per_character is 1 or 2.
C10_FilePosInRange ==
    \A x \in EmittedInstances :
        /\ 0 <= x.inst.file_pos
        /\ x.inst.file_pos <= x.step
        /\ x.inst.bytes_per_character \in {1, 2}

\* C10 witness: instances of both widths have been emitted, one of them after
\* the buffer had dropped bytes.
C10_Witness ==
    /\ \E x \in EmittedInstances : x.inst.bytes_per_character = 2
    /\ \E x \in EmittedInstances :
        x.inst.bytes_per_character = 1 /\ x.step > context_size

\* The two 16-bit halves <<high, low>> of the 32 bits that stand for x.
Halves(x) == <<(x \div 65536) % 65536, x % 65536>>

\* The halves of (num - shift) mod 2^32, by subtraction with borrow.
HalvesOfDifference(num, shift) ==
    LET n == Halves(num)
        d == Halves(shift)
        borrow == IF n[2] < d[2] THEN 1 ELSE 0
    IN  <<(n[1] - d[1] - borrow) % 65536, (n[2] - d[2]) % 65536>>

\* C11: after n pushes the buffer holds min(n, context_size) bytes, the last
\* that were pushed, oldest first; and get_context(shift, 1) returns those
\* bytes, each less shift (as a u32), in that order.
C11_BufferHoldsLastPushes ==
    /\ Len(context) = Min2(Len(pushed), context_size)
    /\ context = SubSeq(pushed, Len(pushed) - Len(context) + 1, Len(pushed))
    /\ \A shift \in (-MaxByte)..MaxByte :
        \A r \in get_context(shift, 1) :
            /\ ~r.panic
            /\ Len(r.out) = Len(context)
            /\ \A i \in 1..Len(context) :
                /\ context[i] >= shift => r.out[i] = context[i] - shift
                /\ Halves(r.out[i]) = HalvesOfDifference(context[i], shift)

\* C11 witness: the buffer is full, has dropped source bytes, and holds a
\* source byte that is not 0 before a flush zero.
C11_Witness ==
    /\ Len(pushed) > context_size
    /\ Len(context) = context_size
    /\ flushed_at # {}
    /\ context[1] # 0

\* The codepoints of token stand side by side somewhere in text.
ContainsRun(text, token) ==
    \E o \in 0..(Len(text) - Len(token)) : SubSeq(text, o + 1, o + Len(token)) = token

\* C12 (as claimed): right after next() has returned a group, get_context
\* under the shift and width of any of its instances returns a Text, and the
\* Text holds every token of the instance's phrase as a run of codepoints.
C12_ContextHoldsEveryToken ==
    \A inst \in LastInstances :
        \A r \in get_context(inst.codepoint_diff, inst.bytes_per_character) :
            /\ ~r.panic
            /\ \A k \in 1..Len(At(phrases, inst.phrase_index)) :
                ContainsRun(r.out, At(phrases, inst.phrase_index)[k])

Max2(a, b) == IF a > b THEN a ELSE b

\* C13: Finder::new panics, and no Finder ever runs, when the context size
\* is no multiple of 4 or the window size exceeds it; otherwise it returns a
\* Finder at position 0 with an empty buffer of capacity context_size, every
\* skip counter 0 and a flush counter of context_size - w_right, where
\* w_right = min(max(C/2 - W/2, 0) + W, C).
C13_NewChecksArguments ==
    /\ [](pc = "panicked" => (pushed = <<>> /\ context = <<>> /\ emitted = <<>>))
    /\ [][pc = "new" =>
            IF context_size % 4 # 0 \/ window_size > context_size
            THEN pc' = "panicked"
            ELSE /\ pc' = "ready"
                 /\ current_byte' = 0
                 /\ context' = <<>>
                 /\ context_size' = context_size
                 /\ phrases' = phrases
                 /\ Len(phrase_skip_counters') = Len(phrases)
                 /\ \A i \in 1..Len(phrases) : phrase_skip_counters'[i] = 0
                 /\ flush_counter' = context_size -
                        Min2(Max2((context_size \div 2) - (window_size \div 2), 0)
                                 + window_size, context_size)]_vars

\* C13 witness: Finder::new has panicked on a context size that is a multiple
\* of 4 and a window size above it.
C13_Witness ==
    /\ pc = "panicked"
    /\ context_size % 4 = 0
    /\ window_size > context_size

\* next() has just returned None for the first time: the run on the source
\* is complete.
RunEnded == none_returned = 1 /\ pc = "ready"

\* The instances of the groups of a run, each with the step of its group.
RunInstances(run) ==
    UNION {{[step |-> run[g].step, inst |-> run[g].group[i]] :
              i \in 1..Len(run[g].group)} : g \in 1..Len(run)}

\* The stream position just past the window of step n of the Finder of this
\* state (n pushes made).
WindowEnd(n) ==
    LET len == Min2(n, context_size)
    IN  n - len + Min2(window_right, len)

\* The bytes before the trailing context_size - window_right bytes of the source.
NonTrailing == Max2(SourcePushed - (context_size - window_right), 0)

\* src from position cut on (0-based) replaced with zeros.
Zeroed(src, cut) == [i \in 1..Len(src) |-> IF i > cut THEN 0 ELSE src[i]]

\* The run of this state's Finder on its source, and on the source with its
\* trailing context_size - window_right bytes replaced with zeros.
RunOnSource == Finder_run(phrases, context_size, window_size, Source)
RunOnZeroed ==
    Finder_run(phrases, context_size, window_size, Zeroed(Source, NonTrailing))

\* C14 (as claimed): replacing the trailing context_size - w_right bytes of
\* the stream with zeros does not change the set of reported hits whose
\* file_pos lies before that trailing region.
C14_HitsBeforeTrailingRegionKept ==
    RunEnded =>
        {x.inst : x \in {y \in RunInstances(RunOnSource) :
                            y.inst.file_pos < NonTrailing}}
      = {x.inst : x \in {y \in RunInstances(RunOnZeroed) :
                            y.inst.file_pos < NonTrailing}}

\* C14 (amended): replacing the trailing context_size - w_right bytes of the
\* stream with zeros does not change the hits reported by the steps whose
\* window lies before that trailing region.
C14_HitsOfWindowsBeforeTrailingRegionKept ==
    RunEnded =>
        {x \in RunInstances(RunOnSource) : WindowEnd(x.step) <= NonTrailing}
      = {x \in RunInstances(RunOnZeroed) : WindowEnd(x.step) <= NonTrailing}

\* C14 witness: a terminated run with a hit from a window that lies before
\* the trailing region, reported by a step that pushed a byte of the trailing
\* region which is not zero.
C14_Witness ==
    /\ RunEnded
    /\ \E x \in EmittedInstances :
        /\ WindowEnd(x.step) <= NonTrailing
        /\ x.step > NonTrailing
        /\ x.step <= SourcePushed
        /\ pushed[x.step] # 0

\* Every byte of src raised by k.
Shifted(src, k) == [i \in 1..Len(src) |-> src[i] + k]

\* C15 (as claimed): with k added to every byte of the stream the Finder
\* reports the same hits, the codepoint shift of each raised by k.
C15_ShiftedStreamSameHits ==
    RunEnded =>
        \A k \in 1..MaxByte :
            {x.inst : x \in RunInstances(
                Finder_run(phrases, context_size, window_size, Shifted(Source, k)))}
          = {[x.inst EXCEPT !.codepoint_diff = @ + k] :
                x \in RunInstances(RunOnSource)}

\* The hits a run reports in the steps whose window holds source bytes only
\* (no flush zero), each with its step.
HitsInSource(run) == {x \in RunInstances(run) : WindowEnd(x.step) <= SourcePushed}

\* C15 (amended): with k added to every byte of the stream, and when neither
\* run reports a hit of width 2 from a window of source bytes, the steps whose
\* window holds source bytes only (no flush zero) report the same hits, same
\* phrase_index, file_pos and width 1, with the codepoint shift raised by k.
C15_ShiftedStreamSameHitsInSource ==
    RunEnded =>
        \A k \in 1..MaxByte :
            LET runK == Finder_run(phrases, context_size, window_size,
                                   Shifted(Source, k))
            IN  (\A x \in HitsInSource(RunOnSource) \cup HitsInSource(runK) :
                     x.inst.bytes_per_character = 1)
                => HitsInSource(runK) =
                       {[x EXCEPT !.inst.codepoint_diff = @ + k] :
                           x \in HitsInSource(RunOnSource)}

\* C15 witness: a terminated run without a hit of width 2 and with a hit,
\* under a shift other than 0, from a window of source bytes after the buffer
\* has dropped bytes.
C15_Witness ==
    /\ RunEnded
    /\ \A x \in EmittedInstances : x.inst.bytes_per_character = 1
    /\ \E x \in EmittedInstances :
        /\ WindowEnd(x.step) <= SourcePushed
        /\ x.step > context_size
        /\ x.inst.codepoint_diff # 0

\* src as 2-byte characters: a zero byte after every byte (little-endian), or
\* before every byte (big-endian).
InterleavedLE(src) ==
    [i \in 1..(2 * Len(src)) |-> IF i % 2 = 1 THEN src[(i + 1) \div 2] ELSE 0]
InterleavedBE(src) ==
    [i \in 1..(2 * Len(src)) |-> IF i % 2 = 0 THEN src[i \div 2] ELSE 0]

\* The hits of shift 0 and width w of a run.
PlainHits(run, w) ==
    {x.inst : x \in {y \in RunInstances(run) :
        y.inst.codepoint_diff = 0 /\ y.inst.bytes_per_character = w}}

\* C16 (as claimed): for every hit (p, pos, shift 0, width 1) on the source
\* S with (C, W), the Finder with (2C, 2W) reports (p, 2*pos, 0, 2) on S with
\* a zero after every byte and (p, 2*pos + 1, 0, 2) on S with a zero before
\* every byte, and no other hit of shift 0 and width 2.
C16_TwoByteEncodingsSameHits ==
    RunEnded =>
        LET runLE == Finder_run(phrases, 2 * context_size, 2 * window_size,
                                InterleavedLE(Source))
            runBE == Finder_run(phrases, 2 * context_size, 2 * window_size,
                                InterleavedBE(Source))
        IN  /\ PlainHits(runLE, 2) =
                   {[h EXCEPT !.file_pos = 2 * @, !.bytes_per_character = 2] :
                       h \in PlainHits(RunOnSource, 1)}
            /\ PlainHits(runBE, 2) =
                   {[h EXCEPT !.file_pos = 2 * @ + 1, !.bytes_per_character = 2] :
                       h \in PlainHits(RunOnSource, 1)}

\* C17 (as claimed): from_slice_2bytes, for a slice of any length and any
\* shift, returns (it does not fail) a Text of floor(len/2) codepoints, the
\* i-th being (slice[2i] + 256*slice[2i+1]) - shift.
C17_TwoByteDecoderTotal ==
    call.op = "from_slice_2bytes" =>
        /\ ~call.panic
        /\ Len(call.out) = Len(call.slice) \div 2
        /\ \A i \in 1..Len(call.out) :
            Halves(call.out[i]) =
                HalvesOfDifference(call.slice[2 * i - 1] + 256 * call.slice[2 * i],
                                   call.diff)

\* C18 (as claimed): from_slice_1byte, for every byte and every 32-bit shift,
\* returns (it never fails) a Text as long as the slice whose codepoints are
\* (b - shift) mod 2^32.
C18_OneByteDecoderWraps ==
    call.op = "from_slice_1byte" =>
        /\ ~call.panic
        /\ Len(call.out) = Len(call.slice)
        /\ \A i \in 1..Len(call.out) :
            Halves(call.out[i]) = HalvesOfDifference(call.slice[i], call.diff)

\* ASCII whitespace: tab, LF, FF, CR and space.
IsWhitespace(c) == c \in {9, 10, 12, 13, 32}

\* The first positions of the maximal runs of non-whitespace chars of str.
RunStarts(str) ==
    {i \in 1..Len(str) :
        ~IsWhitespace(str[i]) /\ (i = 1 \/ IsWhitespace(str[i - 1]))}

\* The maximal run of non-whitespace chars of str that begins at i.
RunAt(str, i) ==
    LET j == CHOOSE j \in i..Len(str) :
                 /\ \A k \in i..j : ~IsWhitespace(str[k])
                 /\ j = Len(str) \/ IsWhitespace(str[j + 1])
    IN  SubSeq(str, i, j)

\* The maximal non-empty runs of non-whitespace chars of str, in order.
Runs(str) ==
    LET starts == RunStarts(str)
        nth(k) == CHOOSE i \in starts : Cardinality({j \in starts : j < i}) = k - 1
    IN  [k \in 1..Cardinality(starts) |-> RunAt(str, nth(k))]

\* C19 (as claimed): the Phrase parsed from a --phrase argument has one Text
\* per maximal non-empty run of non-whitespace characters, so every token of
\* it is non-empty.
C19_TokensAreWhitespaceRuns ==
    call.op = "parse_phrase" =>
        /\ call.out = Runs(call.str)
        /\ \A k \in 1..Len(call.out) : call.out[k] # <<>>

\* C20: for every string s of printable ASCII characters (32..126),
\* Text::from_str(s).to_string() is s.
C20_RoundTripPrintable ==
    (call.op = "to_string" /\ \A i \in 1..Len(call.str) : call.str[i] \in 32..126)
        => call.out = call.str

\* C20 witness: the round trip of a string that holds a space, a letter and '~'.
C20_Witness ==
    /\ call.op = "to_string"
    /\ call.str = <<32, 97, 126>>
    /\ call.out = call.str

\* ------------------------------------------------------- the service's claims
\* prefix's names are the first names of file's.
ComponentPrefix(prefix, file) ==
    LET p == components(prefix)
        c == components(file)
    IN  Len(p) <= Len(c) /\ SubSeq(c, 1, Len(p)) = p

\* The document on disk names the file path.
OnDisk(path) == \E i \in 1..Len(disk.content) : disk.content[i] = Piece("file", path)

\* C21: remove_files(prefix) leaves tracked exactly the files that do not have
\* prefix as a component-wise path prefix, and leaves the tracked phrases as
\* they were.
C21_RemoveFilesFrame ==
    [][last_call'.op = "remove_files" =>
          /\ state'.files = {file \in state.files : ~ComponentPrefix(last_call'.path, file)}
          /\ state'.phrases = state.phrases]_vars

\* C21 witness: remove_files("d") has ended with phrases tracked; d/1 and
\* d/e/2, persisted before it, are tracked no more, and df still is.
C21_Witness ==
    /\ last_call.op = "remove_files"
    /\ last_call.path = <<100>>
    /\ OnDisk(<<100, 47, 49>>)
    /\ OnDisk(<<100, 47, 101, 47, 50>>)
    /\ state.files = {<<100, 102>>}
    /\ state.phrases # {}

\* The kind of the entry of the file tree that path names: "none" where there
\* is no entry.
KindOf(path) ==
    IF \E e \in FileSystem : e.names = components(path)
    THEN (CHOOSE e \in FileSystem : e.names = components(path)).kind
    ELSE "none"

\* The names of the regular files beneath the directory that path names.
RegularBeneath(path) ==
    {e.names : e \in {e \in FileSystem : /\ e.kind = "file"
                                         /\ Len(e.names) > Len(components(path))
                                         /\ ComponentPrefix(path, join_all(<<>>, e.names))}}

\* The names of the files of a set of paths.
NamesOf(files) == {components(file) : file \in files}

\* C22 (as claimed): add_file(path) on a regular file returns Ok and tracks the
\* old set plus that path; on a directory it returns Ok and tracks the old set
\* plus the regular files beneath it; on a path whose metadata cannot be read
\* it returns Err and leaves the tracked set as it was.
C22_AddFileTracks ==
    [][last_call'.op = "add_file" =>
          LET path == last_call'.path
          IN  /\ KindOf(path) = "file" =>
                    /\ last_call'.result = "Ok"
                    /\ NamesOf(state'.files) = NamesOf(state.files) \cup {components(path)}
              /\ KindOf(path) = "dir" =>
                    /\ last_call'.result = "Ok"
                    /\ NamesOf(state'.files) = NamesOf(state.files) \cup RegularBeneath(path)
              /\ KindOf(path) \in {"none", "unreadable"} =>
                    /\ last_call'.result = "Err"
                    /\ state'.files = state.files]_vars

\* C23 (as claimed): FinderService::new on the persist file, after a persist
\* that returned Ok, yields (without a panic on the document) a service whose
\* tracked files and tracked phrases are those of the persisting service.
C23_PersistRoundTrip ==
    [][(last_call.op = "persist" /\ last_call.result = "Ok" /\ last_call'.op = "new") =>
          /\ last_call'.result = "Ok"
          /\ NamesOf(state'.files) = NamesOf(state.files)
          /\ state'.phrases = state.phrases]_vars

\* ------------------------------------------------- the Finder's later claims
\* The smallest offset of window at which a token of phrase stands under
\* (shift, width).
EarliestOffset(phrase, window, shift, width) ==
    SetMin(UNION {MatchOffsets(phrase[k], window, shift, width) : k \in 1..Len(phrase)})

\* The earliest token index of an emitted instance: its file_pos, counted from
\* the stream position of the left edge of the window of its step.
EarliestOf(x) ==
    x.inst.file_pos - (CHOOSE w \in windows_seen : w.step = x.step).pos

\* C24: in every step, flush steps included, a phrase whose skip counter is
\* above 0 is not searched, emits nothing and has its counter decreased by 1;
\* a phrase whose counter is 0 is searched, and its counter becomes the
\* earliest token index on a hit and stays 0 otherwise, whatever the other
\* phrases do. So the e steps after a hit with earliest token index e emit no
\* instance of the phrase.
C24_SkipCounterProtocol ==
    /\ [][Len(pushed') = Len(pushed) + 1 =>
            \A p \in 0..(Len(phrases) - 1) :
                LET skip == At(phrase_skip_counters, p)
                    hits == {i \in 1..Len(last'.group) : last'.group[i].phrase_index = p}
                    window == Slice(context', last'.w_left, last'.w_right)
                IN  IF skip > 0
                    THEN /\ p \notin last'.searched
                         /\ hits = {}
                         /\ At(phrase_skip_counters', p) = skip - 1
                    ELSE /\ p \in last'.searched
                         /\ hits = {} => At(phrase_skip_counters', p) = 0
                         /\ \A i \in hits :
                               At(phrase_skip_counters', p) =
                                   EarliestOffset(At(phrases, p), window,
                                                  last'.group[i].codepoint_diff,
                                                  last'.group[i].bytes_per_character)]_vars
    /\ [](\A x, y \in EmittedInstances :
              (x.inst.phrase_index = y.inst.phrase_index /\ x.step < y.step)
                  => y.step - x.step > EarliestOf(x))

\* C24 witness: the second of two phrases was emitted in the step before the
\* latest with an earliest token index of 2, was skipped in the latest step and
\* is to be skipped once more, while the first phrase was searched.
C24_Witness ==
    /\ Len(phrases) = 2
    /\ last.searched = {0}
    /\ At(phrase_skip_counters, 1) >= 1
    /\ \E x \in EmittedInstances :
        /\ x.inst.phrase_index = 1
        /\ x.step + 1 = Len(pushed)
        /\ EarliestOf(x) = At(phrase_skip_counters, 1) + 1

\* w_left = max(C/2 - W/2, 0) and w_right = min(w_left + W, C).
NominalLeft == Max2(context_size \div 2 - window_size \div 2, 0)
NominalRight == Min2(NominalLeft + window_size, context_size)

\* C25: the window of every step is the buffer range [l, r) with
\* r = min(w_right, buffer length) and l = max(r - W, 0); it lies in the buffer,
\* the buffer holds at most C bytes, the window at most W, and with a full
\* buffer the window is [w_left, w_right) and W bytes long.
C25_WindowGeometry ==
    /\ Len(context) <= context_size
    /\ last.stepped =>
        /\ last.w_right = Min2(NominalRight, Len(context))
        /\ last.w_left = Max2(last.w_right - window_size, 0)
        /\ 0 <= last.w_left
        /\ last.w_left <= last.w_right
        /\ last.w_right <= Len(context)
        /\ last.w_right - last.w_left <= window_size
        /\ \E w \in windows_seen :
            /\ w.step = Len(pushed)
            /\ w.bytes = Slice(context, last.w_left, last.w_right)
        /\ Len(context) = context_size =>
            /\ last.w_left = NominalLeft
            /\ last.w_right = NominalRight
            /\ last.w_right - last.w_left = window_size

\* C25 witness: a step on a buffer that was full before it, with a window of
\* odd size that neither begins nor ends where the buffer does.
C25_Witness ==
    /\ last.stepped
    /\ Len(pushed) > context_size
    /\ window_size = 1
    /\ last.w_left = 2
    /\ last.w_right = 3
    /\ context_size = 4

\* The offsets i at which token a stands in the characters of width w of b:
\* the character at i + k less a[k] is the same value mod 2^32 for every k.
ConstantDifferenceAt(a, b, w) ==
    {i \in 0..(Len(b) \div w - Len(a)) :
        \A k \in 0..(Len(a) - 1) :
            HalvesOfDifference(CharAt(b, w * i, k, w), At(a, k)) =
                HalvesOfDifference(CharAt(b, w * i, 0, w), At(a, 0))}

\* The outcome of the call is what the claims say of a search at width w.
ReturnsFirstOffset(w) ==
    LET a == call.str
        b == call.slice
        offsets == ConstantDifferenceAt(a, b, w)
    IN  IF Len(a) = 0 \/ Len(a) > Len(b) \div w \/ offsets = {}
        THEN call.out = NoToken
        ELSE /\ call.out.found
             /\ call.out.index = w * SetMin(offsets)
             /\ Halves(call.out.codepoint_diff) =
                    HalvesOfDifference(CharAt(b, w * SetMin(offsets), 0, w), At(a, 0))
             /\ call.out.bytes_per_character = w

\* C26 (as claimed): search(a, b), for any token a and window b, returns the
\* smallest i in 0..=len(b)-len(a) at which b[i+k] - a[k] is the same value for
\* every k, with the shift b[i] - a[0] and the width 1, and no match when there
\* is no such i, when a is empty or when a is longer than b.
C26_SearchOneByte ==
    call.op = "search" => (~call.panic /\ ReturnsFirstOffset(1))

\* C27 (as claimed): search_2bytes(a, b) reads b as little-endian pairs from
\* its start on, ignores a trailing odd byte, and returns for the smallest i in
\* 0..=(floor(len(b)/2) - len(a)) at which pair(i+k) - a[k] is the same value
\* for every k the index 2i, the shift pair(i) - a[0] and the width 2, and no
\* match when there is no such i.
C27_SearchTwoBytes ==
    call.op = "search_2bytes" => (~call.panic /\ ReturnsFirstOffset(2))

\* The offsets of window at which token t stands at width w under the shift
\* that its first character has there.
StandsAt(t, window, w) ==
    {o \in 0..(Len(window) - w) :
        /\ Len(t) > 0
        /\ o % w = 0
        /\ OccursAt(window, o, t, CharAt(window, o, 0, w) - At(t, 0), w)}

\* The first width, 1 before 2, at which token t stands in window under any
\* shift (0 when there is none), and the shift of its first offset there.
FirstWidth(t, window) ==
    IF StandsAt(t, window, 1) # {} THEN 1
    ELSE IF StandsAt(t, window, 2) # {} THEN 2 ELSE 0

FirstShift(t, window) ==
    LET w == FirstWidth(t, window)
    IN  CharAt(window, SetMin(StandsAt(t, window, w)), 0, w) - At(t, 0)

\* The first width, 1 before 2, at which token t stands in window under shift.
WidthUnder(t, window, shift) ==
    IF MatchOffsets(t, window, shift, 1) # {} THEN 1
    ELSE IF MatchOffsets(t, window, shift, 2) # {} THEN 2 ELSE 0

\* C28: a phrase searched in a step is reported exactly when its first token
\* is found, 1-byte search before 2-byte search, and every later token's first
\* width under the first token's shift, again 1 before 2, is the first token's
\* width; the hit carries the first token's shift and width. So a phrase whose
\* first token stands in the window at width 1 is not reported with width 2.
C28_OrderOfAttempts ==
    \A p \in last.searched :
        LET phrase == At(phrases, p)
            hits == {inst \in LastInstances : inst.phrase_index = p}
            width == FirstWidth(phrase[1], LastWindow)
            shift == FirstShift(phrase[1], LastWindow)
            reported == /\ width # 0
                        /\ \A k \in 2..Len(phrase) :
                               WidthUnder(phrase[k], LastWindow, shift) = width
        IN  /\ reported <=> hits # {}
            /\ \A inst \in hits :
                /\ inst.codepoint_diff = shift
                /\ inst.bytes_per_character = width
            /\ StandsAt(phrase[1], LastWindow, 1) # {} =>
                   \A inst \in hits : inst.bytes_per_character # 2

\* C28 witness: the first token of a searched phrase is found at width 2 only,
\* its second token stands under that shift at width 1, and the phrase is not
\* reported.
C28_Witness ==
    \E p \in last.searched :
        LET phrase == At(phrases, p)
        IN  /\ Len(phrase) = 2
            /\ FirstWidth(phrase[1], LastWindow) = 2
            /\ WidthUnder(phrase[2], LastWindow, FirstShift(phrase[1], LastWindow)) = 1
            /\ \A inst \in LastInstances : inst.phrase_index # p

\* C29: of two instances of the same phrase, the earlier one emitted in a step
\* before which at least context_size bytes had been pushed, the later one has
\* the larger file_pos.
C29_FilePosIncreases ==
    \A x, y \in EmittedInstances :
        (/\ x.inst.phrase_index = y.inst.phrase_index
         /\ x.step < y.step
         /\ x.step - 1 >= context_size)
            => y.inst.file_pos > x.inst.file_pos

\* C29 witness: a phrase emitted on a full buffer with its earliest token one
\* byte right of the window's left edge is emitted again two steps later,
\* further right.
C29_Witness ==
    \E x, y \in EmittedInstances :
        /\ x.inst.phrase_index = y.inst.phrase_index
        /\ x.step - 1 >= context_size
        /\ EarliestOf(x) = 1
        /\ y.step = x.step + 2
        /\ y.inst.file_pos > x.inst.file_pos

\* The persist file holds one serialization of the tracked state and nothing
\* else.
PersistedState == disk.exists /\ disk.content = serialize(state)

ContextInStream == Range(current_byte - Len(context), current_byte)

WindowInStream ==
    LET wb == get_window_bounds(Len(context))
    IN  Range(ContextInStream.start + wb[1], ContextInStream.start + wb[2])

\* C31 (as claimed): in every state of the Finder get_context_range returns
\* [position - buffer.len(), position), and get_window_range returns, without
\* underflow, a range with start <= end inside the context range: the stream
\* positions of the window.
C31_RangesInStream ==
    /\ get_context_range = {Returned(ContextInStream)}
    /\ \A r \in get_window_range :
        /\ ~r.panic
        /\ r.out.start <= r.out.end
        /\ ContextInStream.start <= r.out.start
        /\ r.out.end <= ContextInStream.end
        /\ r.out = WindowInStream

====
